---------------------------- MODULE Spec2Model ----------------------------
(***************************************************************************)
(* Search monitors of the constraint solver (constraint_solver/search.cc): *)
(* solution collectors, OptimizeVar, search limits, restarts, and the      *)
(* depth-first driver that broadcasts the monitor events to them.          *)
(*                                                                         *)
(* Every object of the program is one variable holding a record of the     *)
(* object's fields (the fields keep their source names).  The methods are  *)
(* operators from the object's record (and the solver's counters) to the   *)
(* record after the call.                                                  *)
(***************************************************************************)
EXTENDS Integers, Sequences, FiniteSets, TLC

VARIABLES
    solver,     \* Solver counters: branches(), failures(), wall_time(), solutions()
    collector,  \* a SolutionCollector (first / last / best / all)
    limit,      \* a RegularLimit
    optimize,   \* an OptimizeVar
    restart,    \* a ConstantRestart
    search,     \* the driver: position, domains, choice-point stack
    hist        \* history of the events seen (used by the properties only)

vars == <<solver, collector, limit, optimize, restart, search, hist>>

---------------------------------------------------------------------------
(* int64, scaled to IntBits bits: kint64min .. kint64max.                  *)

IntBits == 16

kint64max == 2^(IntBits - 1) - 1
kint64min == -(2^(IntBits - 1))

InInt64(x) == kint64min <= x /\ x <= kint64max

\* Two's complement wrap-around of an out-of-range result.
Wrap(x) == ((x - kint64min) % (2^IntBits)) + kint64min

NULL == 0            \* the null pointer, as an object id

Last(s) == s[Len(s)]
ButLast(s) == SubSeq(s, 1, Len(s) - 1)

---------------------------------------------------------------------------
(* Bounds of the model.                                                    *)

MaxCount == 1       \* the solver counters advance up to this value
MaxObj == 2         \* values and objective values at a solution: 0 .. MaxObj
MaxEvents == 2      \* AtSolution events per search in the collector scenarios

---------------------------------------------------------------------------
(* Solver counters.                                                        *)

SolverInit == [branches |-> 0, failures |-> 0, wall_time |-> 0, solutions |-> 0]

---------------------------------------------------------------------------
(* Assignment: Store() snapshots the current values of the prototype's     *)
(* variables and of its objective, when it has one.                        *)

\* cur: the current solver state at a solution node, [vars, omin, omax]:
\* the values of the variables, Min() and Max() of the objective.
Store(hasObjective, cur) ==
    [vars |-> cur.vars, hasObjective |-> hasObjective,
     obj |-> IF hasObjective THEN cur.omin ELSE 0]

ObjectiveValue(a) == IF a.hasObjective THEN a.obj ELSE 0

---------------------------------------------------------------------------
(* SolutionCollector base class.  Assignment objects live in heap, keyed   *)
(* by an object id; solutions_ and recycle_solutions_ hold ids (or NULL).  *)

CollectorKinds == {"first", "last", "best", "all"}

NewCollector(kind, hasPrototype, hasObjective, maximize) ==
    [kind |-> kind,
     prototype_ |-> hasPrototype,                  \* prototype_.get() != NULL
     hasObjective |-> hasPrototype /\ hasObjective, \* prototype_->Objective() != NULL
     maximize_ |-> maximize,
     solutions_ |-> <<>>, recycle_solutions_ |-> <<>>,
     times_ |-> <<>>, branches_ |-> <<>>, failures_ |-> <<>>,
     objective_values_ |-> <<>>,
     heap |-> <<>>,
     done_ |-> FALSE,
     best_ |-> IF maximize THEN kint64min ELSE kint64max]

LiveIds(c) == { c.solutions_[i] : i \in DOMAIN c.solutions_ }
                \cup { c.recycle_solutions_[i] : i \in DOMAIN c.recycle_solutions_ }

\* new Assignment(prototype_): a fresh object.
NewId(c) == CHOOSE n \in 1..(Cardinality(LiveIds(c)) + 1) : n \notin LiveIds(c)

HeapPut(h, id, a) == [i \in DOMAIN h \cup {id} |-> IF i = id THEN a ELSE h[i]]

SolutionCollectorEnterSearch(c) ==
    [c EXCEPT !.solutions_ = <<>>, !.recycle_solutions_ = <<>>,
              !.times_ = <<>>, !.branches_ = <<>>, !.failures_ = <<>>,
              !.objective_values_ = <<>>, !.heap = <<>>]

\* Mutant: the new Assignment is pushed without Store(): it keeps the values
\* copied from the prototype.
PushSolutionNoStore(c, s, cur) ==
    LET recycled == c.prototype_ /\ c.recycle_solutions_ # <<>>
        new_sol == IF c.prototype_
                      THEN IF recycled THEN Last(c.recycle_solutions_) ELSE NewId(c)
                      ELSE NULL
        heap1 == IF c.prototype_ /\ ~recycled
                    THEN HeapPut(c.heap, new_sol,
                                 [vars |-> 0, hasObjective |-> c.hasObjective, obj |-> 0])
                    ELSE c.heap
    IN  [c EXCEPT !.recycle_solutions_ = IF recycled THEN ButLast(@) ELSE @,
                  !.heap = heap1,
                  !.solutions_ = Append(@, new_sol),
                  !.times_ = Append(@, s.wall_time),
                  !.branches_ = Append(@, s.branches),
                  !.failures_ = Append(@, s.failures),
                  !.objective_values_ =
                      Append(@, IF new_sol # NULL
                                   THEN ObjectiveValue(heap1[new_sol]) ELSE 0)]

PushSolution(c, s, cur) ==
    LET recycled == c.prototype_ /\ c.recycle_solutions_ # <<>>
        new_sol == IF c.prototype_
                      THEN IF recycled THEN Last(c.recycle_solutions_) ELSE NewId(c)
                      ELSE NULL
        heap1 == IF c.prototype_
                    THEN HeapPut(c.heap, new_sol, Store(c.hasObjective, cur))
                    ELSE c.heap
    IN  [c EXCEPT !.recycle_solutions_ = IF recycled THEN ButLast(@) ELSE @,
                  !.heap = heap1,
                  !.solutions_ = Append(@, new_sol),
                  !.times_ = Append(@, s.wall_time),
                  !.branches_ = Append(@, s.branches),
                  !.failures_ = Append(@, s.failures),
                  !.objective_values_ =
                      Append(@, IF new_sol # NULL
                                   THEN ObjectiveValue(heap1[new_sol]) ELSE 0)]

\* Mutant: times_.pop_back() is forgotten.
PopSolutionKeepsTimes(c) ==
    IF c.solutions_ # <<>>
       THEN LET popped == Last(c.solutions_)
            IN  [c EXCEPT !.solutions_ = ButLast(@),
                          !.recycle_solutions_ =
                              IF popped # NULL THEN Append(@, popped) ELSE @,
                          !.branches_ = ButLast(@),
                          !.failures_ = ButLast(@),
                          !.objective_values_ = ButLast(@)]
       ELSE c

\* Mutant: the popped Assignment is recycled and stays in solutions_.
PopSolutionKeepsSolution(c) ==
    IF c.solutions_ # <<>>
       THEN LET popped == Last(c.solutions_)
            IN  [c EXCEPT !.recycle_solutions_ =
                              IF popped # NULL THEN Append(@, popped) ELSE @,
                          !.times_ = ButLast(@),
                          !.branches_ = ButLast(@),
                          !.failures_ = ButLast(@),
                          !.objective_values_ = ButLast(@)]
       ELSE c

PopSolution(c) ==
    IF c.solutions_ # <<>>
       THEN LET popped == Last(c.solutions_)
            IN  [c EXCEPT !.solutions_ = ButLast(@),
                          !.recycle_solutions_ =
                              IF popped # NULL THEN Append(@, popped) ELSE @,
                          !.times_ = ButLast(@),
                          !.branches_ = ButLast(@),
                          !.failures_ = ButLast(@),
                          !.objective_values_ = ButLast(@)]
       ELSE c

solution_count(c) == Len(c.solutions_)

---------------------------------------------------------------------------
(* The four collectors.                                                    *)

FirstSolutionCollectorEnterSearch(c) ==
    [SolutionCollectorEnterSearch(c) EXCEPT !.done_ = FALSE]

\* Mutant: done_ is never set.
FirstSolutionCollectorAtSolutionNoDone(c, s, cur) ==
    IF ~c.done_ THEN PushSolution(c, s, cur) ELSE c

FirstSolutionCollectorAtSolution(c, s, cur) ==
    IF ~c.done_ THEN [PushSolution(c, s, cur) EXCEPT !.done_ = TRUE] ELSE c

\* Mutant: the previous solution is not popped.
LastSolutionCollectorAtSolutionNoPop(c, s, cur) == PushSolution(c, s, cur)

LastSolutionCollectorAtSolution(c, s, cur) == PushSolution(PopSolution(c), s, cur)

BestValueSolutionCollectorEnterSearch(c) ==
    [SolutionCollectorEnterSearch(c) EXCEPT
        !.best_ = IF c.maximize_ THEN kint64min ELSE kint64max]

\* Mutant: a solution as good as the best one replaces it (>= for >, <= for <).
BestValueSolutionCollectorAtSolutionTies(c, s, cur) ==
    IF c.prototype_ /\ c.hasObjective
       THEN IF c.maximize_ /\ cur.omax >= c.best_
               THEN [PushSolution(PopSolution(c), s, cur) EXCEPT !.best_ = cur.omax]
               ELSE IF ~c.maximize_ /\ cur.omin <= c.best_
                       THEN [PushSolution(PopSolution(c), s, cur)
                                EXCEPT !.best_ = cur.omin]
                       ELSE c
       ELSE c

BestValueSolutionCollectorAtSolution(c, s, cur) ==
    IF c.prototype_ /\ c.hasObjective
       THEN IF c.maximize_ /\ cur.omax > c.best_
               THEN [PushSolution(PopSolution(c), s, cur) EXCEPT !.best_ = cur.omax]
               ELSE IF ~c.maximize_ /\ cur.omin < c.best_
                       THEN [PushSolution(PopSolution(c), s, cur)
                                EXCEPT !.best_ = cur.omin]
                       ELSE c
       ELSE c

AllSolutionCollectorAtSolution(c, s, cur) == PushSolution(c, s, cur)

\* The virtual calls, dispatched on the collector's class.
CollectorEnterSearch(c) ==
    CASE c.kind = "first" -> FirstSolutionCollectorEnterSearch(c)
      [] c.kind = "best" -> BestValueSolutionCollectorEnterSearch(c)
      [] OTHER -> SolutionCollectorEnterSearch(c)

CollectorAtSolution(c, s, cur) ==
    CASE c.kind = "first" -> FirstSolutionCollectorAtSolution(c, s, cur)
      [] c.kind = "last" -> LastSolutionCollectorAtSolution(c, s, cur)
      [] c.kind = "best" -> BestValueSolutionCollectorAtSolution(c, s, cur)
      [] OTHER -> AllSolutionCollectorAtSolution(c, s, cur)

\* AtSolution's result: true asks the driver to go on to the next solution.
CollectorAtSolutionResult(c) == c.kind # "first"

---------------------------------------------------------------------------
(* SpecCollector: one collector of any class receives EnterSearch and      *)
(* AtSolution events while the solver's counters advance.                  *)

Idle == <<>>

CollectorConfigs ==
    { NewCollector(k, p[1], p[2], m) :
        k \in CollectorKinds,
        p \in {<<FALSE, FALSE>>, <<TRUE, FALSE>>, <<TRUE, TRUE>>},
        m \in BOOLEAN }

\* What PushSolution would capture at this moment.
Captured(c, s, cur) ==
    [sol |-> Store(c.hasObjective, cur), time |-> s.wall_time,
     branches |-> s.branches, failures |-> s.failures, obj |-> cur.omin]

InitCollector ==
    /\ solver = SolverInit
    /\ collector \in { c \in CollectorConfigs : c.kind = "best" \/ ~c.maximize_ }
    /\ limit = Idle /\ optimize = Idle /\ restart = Idle /\ search = Idle
    /\ hist = [entered |-> FALSE, events |-> <<>>]

CollectorEnter ==
    /\ collector' = CollectorEnterSearch(collector)
    /\ hist' = [entered |-> TRUE, events |-> <<>>]
    /\ UNCHANGED <<solver, limit, optimize, restart, search>>

\* A solution node: the variable (which is also the objective) has value v.
CollectorSolution ==
    /\ hist.entered
    /\ Len(hist.events) < MaxEvents
    /\ \E v \in 0..MaxObj :
         LET cur == [vars |-> v, omin |-> v, omax |-> v]
         IN  /\ collector' = CollectorAtSolution(collector, solver, cur)
             /\ hist' = [hist EXCEPT
                           !.events = Append(@, Captured(collector, solver, cur))]
    /\ UNCHANGED <<solver, limit, optimize, restart, search>>

\* The solver works between two events: time passes, a branch is taken, or a
\* branch taken fails.
CollectorTick ==
    /\ \/ solver.wall_time < MaxCount /\ solver' = [solver EXCEPT !.wall_time = @ + 1]
       \/ solver.branches < MaxCount /\ solver' = [solver EXCEPT !.branches = @ + 1]
       \/ solver.failures < solver.branches
            /\ solver' = [solver EXCEPT !.failures = @ + 1]
    /\ UNCHANGED <<collector, limit, optimize, restart, search, hist>>

NextCollector == CollectorEnter \/ CollectorSolution \/ CollectorTick

SpecCollector == InitCollector /\ [][NextCollector]_vars

---------------------------------------------------------------------------
(* Properties of the collectors (SpecCollector).                           *)

\* The stored solution n (from 0) is the capture e: its contents (NULL when
\* the collector has no prototype), time, branches, failures, objective value.
StoredIs(c, n, e) ==
    /\ IF c.prototype_
          THEN c.solutions_[n + 1] # NULL /\ c.heap[c.solutions_[n + 1]] = e.sol
          ELSE c.solutions_[n + 1] = NULL
    /\ c.times_[n + 1] = e.time
    /\ c.branches_[n + 1] = e.branches
    /\ c.failures_[n + 1] = e.failures
    /\ c.objective_values_[n + 1] = ObjectiveValue(e.sol)

ObjsOf(events) == { events[i].obj : i \in DOMAIN events }

BestOf(events, maximize) ==
    CHOOSE b \in ObjsOf(events) :
        \A o \in ObjsOf(events) : IF maximize THEN o <= b ELSE o >= b

\* The first event whose objective is the best of all.
FirstBest(events, maximize) ==
    CHOOSE i \in DOMAIN events :
        /\ events[i].obj = BestOf(events, maximize)
        /\ \A j \in 1..(i - 1) : events[j].obj # BestOf(events, maximize)

C5_FirstCollector ==
    collector.kind = "first" =>
        /\ solution_count(collector) \in {0, 1}
        /\ solution_count(collector) = (IF hist.events = <<>> THEN 0 ELSE 1)
        /\ collector.done_ = (hist.events # <<>>)
        /\ hist.events # <<>> => StoredIs(collector, 0, hist.events[1])

\* A second, different solution was reached and ignored.
C5_Witness ==
    /\ collector.kind = "first" /\ collector.prototype_
    /\ Len(hist.events) = 2
    /\ hist.events[1] # hist.events[2]
    /\ hist.events[1].sol # hist.events[2].sol
    /\ solution_count(collector) = 1

\* C6: an AllSolutionCollector holds as many solutions as AtSolution events
\* since the last EnterSearch, and solution(n) is the capture of event n+1.
C6_AllCollector ==
    collector.kind = "all" =>
        /\ solution_count(collector) = Len(hist.events)
        /\ \A n \in 0..(Len(hist.events) - 1) :
              StoredIs(collector, n, hist.events[n + 1])

C6_Witness ==
    /\ collector.kind = "all" /\ collector.prototype_
    /\ Len(hist.events) = 2
    /\ hist.events[1].sol # hist.events[2].sol
    /\ solution_count(collector) = 2

\* C7: a LastSolutionCollector holds one solution once an AtSolution occurred
\* (none before), and it is the capture of the most recent AtSolution.
C7_LastCollector ==
    collector.kind = "last" =>
        /\ solution_count(collector) = (IF hist.events = <<>> THEN 0 ELSE 1)
        /\ hist.events # <<>> => StoredIs(collector, 0, Last(hist.events))

\* The second solution replaced a different first one.
C7_Witness ==
    /\ collector.kind = "last" /\ collector.hasObjective
    /\ Len(hist.events) = 2
    /\ hist.events[1].sol # hist.events[2].sol
    /\ hist.events[1].time # hist.events[2].time
    /\ hist.events[1].branches # hist.events[2].branches
    /\ hist.events[1].failures # hist.events[2].failures
    /\ solution_count(collector) = 1

---------------------------------------------------------------------------
(* SearchLimit and RegularLimit.                                           *)

kMaxSkip == 100
kCheckWarmupIterations == 100

MaxTime == 2        \* wall_time() advances up to this value past its start
MaxChecks == 103    \* Check() calls per search
MaxPlainChecks == 3 \* the same, when the time poll is not amortized

Min2(a, b) == IF a < b THEN a ELSE b

\* int64 division: truncates towards zero.
CDiv(a, b) ==
    IF (a >= 0) = (b > 0)
       THEN (IF a >= 0 THEN a ELSE -a) \div (IF b >= 0 THEN b ELSE -b)
       ELSE -((IF a >= 0 THEN a ELSE -a) \div (IF b >= 0 THEN b ELSE -b))

NewRegularLimit(time, branches, failures, solutions, smart_time_check) ==
    [crossed_ |-> FALSE,
     wall_time_ |-> time, wall_time_offset_ |-> 0,
     check_count_ |-> 0, next_check_ |-> 0,
     smart_time_check_ |-> smart_time_check,
     branches_ |-> branches, branches_offset_ |-> 0,
     failures_ |-> failures, failures_offset_ |-> 0,
     solutions_ |-> solutions, solutions_offset_ |-> 0]

\* Mutant: the next poll is put approximate_calls later, without kMaxSkip.
CheckTimeUncapped(l, s) ==
    LET check_count == Wrap(l.check_count_ + 1)
        l1 == [l EXCEPT !.check_count_ = check_count]
    IN  IF l.wall_time_ # kint64max /\ l.next_check_ <= check_count
           THEN LET time_delta == Wrap(s.wall_time - l.wall_time_offset_)
                    approximate_calls ==
                        CDiv(Wrap(l.wall_time_ * check_count), time_delta)
                IN  [res |-> time_delta > l.wall_time_,
                     lim |-> IF /\ l.smart_time_check_
                                /\ check_count > kCheckWarmupIterations
                                /\ time_delta > 0
                                THEN [l1 EXCEPT !.next_check_ =
                                        Wrap(check_count + approximate_calls)]
                                ELSE l1]
           ELSE [res |-> FALSE, lim |-> l1]

\* CheckTime(): [res |-> the result, lim |-> the limit after the call].
CheckTime(l, s) ==
    LET check_count == Wrap(l.check_count_ + 1)
        l1 == [l EXCEPT !.check_count_ = check_count]
    IN  IF l.wall_time_ # kint64max /\ l.next_check_ <= check_count
           THEN LET time_delta == Wrap(s.wall_time - l.wall_time_offset_)
                    approximate_calls ==
                        CDiv(Wrap(l.wall_time_ * check_count), time_delta)
                IN  [res |-> time_delta > l.wall_time_,
                     lim |-> IF /\ l.smart_time_check_
                                /\ check_count > kCheckWarmupIterations
                                /\ time_delta > 0
                                THEN [l1 EXCEPT !.next_check_ =
                                        Wrap(check_count
                                             + Min2(kMaxSkip, approximate_calls))]
                                ELSE l1]
           ELSE [res |-> FALSE, lim |-> l1]

\* Mutant: the offsets are moved to the right-hand sides of the comparisons.
RegularLimitCheckOffsetsOnRhs(l, s) ==
    IF \/ s.branches > Wrap(l.branches_ + l.branches_offset_)
       \/ s.failures > Wrap(l.failures_ + l.failures_offset_)
       THEN [res |-> TRUE, lim |-> l]
       ELSE LET t == CheckTime(l, s)
            IN  [res |-> t.res
                         \/ s.solutions >= Wrap(l.solutions_ + l.solutions_offset_),
                 lim |-> t.lim]

\* Mutant: the solutions budget is compared like the others (> for >=).
RegularLimitCheckSolutionsStrict(l, s) ==
    IF \/ Wrap(s.branches - l.branches_offset_) > l.branches_
       \/ Wrap(s.failures - l.failures_offset_) > l.failures_
       THEN [res |-> TRUE, lim |-> l]
       ELSE LET t == CheckTime(l, s)
            IN  [res |-> t.res
                         \/ Wrap(s.solutions - l.solutions_offset_) > l.solutions_,
                 lim |-> t.lim]

\* Check(): the || chain evaluates CheckTime() only when neither the branches
\* nor the failures budget is exceeded.
RegularLimitCheck(l, s) ==
    IF \/ Wrap(s.branches - l.branches_offset_) > l.branches_
       \/ Wrap(s.failures - l.failures_offset_) > l.failures_
       THEN [res |-> TRUE, lim |-> l]
       ELSE LET t == CheckTime(l, s)
            IN  [res |-> t.res
                         \/ Wrap(s.solutions - l.solutions_offset_) >= l.solutions_,
                 lim |-> t.lim]

\* Some subtraction of Check() and CheckTime() leaves the range of int64.
CheckOverflows(l, s) ==
    \/ ~InInt64(s.branches - l.branches_offset_)
    \/ ~InInt64(s.failures - l.failures_offset_)
    \/ ~InInt64(s.wall_time - l.wall_time_offset_)
    \/ ~InInt64(s.solutions - l.solutions_offset_)

RegularLimitInit(l, s) ==
    [l EXCEPT !.branches_offset_ = s.branches,
              !.failures_offset_ = s.failures,
              !.wall_time_offset_ = s.wall_time,
              !.check_count_ = 0,
              !.next_check_ = 0,
              !.solutions_offset_ = s.solutions]

SearchLimitEnterSearch(l, s) == RegularLimitInit([l EXCEPT !.crossed_ = FALSE], s)

\* Mutant: a crossed limit lets the check pass.
PeriodicCheckCrossedPasses(l, s) ==
    IF l.crossed_
       THEN [fail |-> FALSE, lim |-> l]
       ELSE LET c == RegularLimitCheck(l, s)
            IN  [fail |-> c.res, lim |-> [c.lim EXCEPT !.crossed_ = c.res]]

\* PeriodicCheck(): [fail |-> Fail() is called, lim |-> the limit afterwards].
PeriodicCheck(l, s) ==
    IF l.crossed_
       THEN [fail |-> TRUE, lim |-> l]
       ELSE LET c == RegularLimitCheck(l, s)
            IN  [fail |-> c.res, lim |-> [c.lim EXCEPT !.crossed_ = c.res]]

---------------------------------------------------------------------------
(* SpecLimit: a RegularLimit receives EnterSearch and the periodic checks  *)
(* (BeginNextDecision, RefuteDecision) while the solver's counters advance.*)

LimitConfigs ==
    { NewRegularLimit(t, b, f, n, smart) :
        t \in {1, kint64max}, b \in {0, kint64max}, f \in {0, kint64max},
        n \in {1, kint64max}, smart \in BOOLEAN }

NoCheck == [called |-> FALSE]

\* The limit is made in a solver that has worked already.
SolverBusy == [branches |-> 1, failures |-> 1, wall_time |-> 1, solutions |-> 1]

\* check_count_ matters to Check() only under smart_time_check with a wall
\* time budget: the other limits are followed for MaxPlainChecks calls.
ChecksBound(l) ==
    IF l.smart_time_check_ /\ l.wall_time_ # kint64max
       THEN MaxChecks ELSE MaxPlainChecks

\* Whether this call of Check() polls the wall time.
TimePolled(l) == l.wall_time_ # kint64max /\ l.next_check_ <= l.check_count_ + 1

InitLimit ==
    /\ solver = SolverBusy
    /\ limit \in LimitConfigs
    /\ collector = Idle /\ optimize = Idle /\ restart = Idle /\ search = Idle
    /\ hist = [entered |-> FALSE, check |-> NoCheck]

\* EnterSearch, at the start of the search.
LimitEnter ==
    /\ ~hist.entered
    /\ limit' = SearchLimitEnterSearch(limit, solver)
    /\ hist' = [entered |-> TRUE, check |-> NoCheck]
    /\ UNCHANGED <<solver, collector, optimize, restart, search>>

\* BeginNextDecision or RefuteDecision: PeriodicCheck().
LimitPeriodicCheck ==
    /\ hist.entered
    /\ limit.check_count_ < ChecksBound(limit)
    /\ LET r == PeriodicCheck(limit, solver)
       IN  /\ limit' = r.lim
           /\ hist' = [hist EXCEPT !.check =
                 [called |-> TRUE,
                  checked |-> ~limit.crossed_,     \* Check() was evaluated
                  fail |-> r.fail,
                  overflow |-> CheckOverflows(limit, solver),
                  polled |-> TimePolled(limit),
                  overBranches |-> solver.branches - limit.branches_offset_
                                      - limit.branches_,
                  overFailures |-> solver.failures - limit.failures_offset_
                                      - limit.failures_,
                  overTime |-> solver.wall_time - limit.wall_time_offset_
                                      - limit.wall_time_,
                  overSolutions |-> solver.solutions - limit.solutions_offset_
                                      - limit.solutions_]]
    /\ UNCHANGED <<solver, collector, optimize, restart, search>>

\* The solver works: a counter advances.
LimitTick ==
    /\ hist.entered
    /\ \/ /\ solver.wall_time < SolverBusy.wall_time + MaxTime
          /\ solver' = [solver EXCEPT !.wall_time = @ + 1]
       \/ /\ solver.branches < SolverBusy.branches + MaxCount
          /\ solver' = [solver EXCEPT !.branches = @ + 1]
       \/ /\ solver.failures < SolverBusy.failures + MaxCount
          /\ solver' = [solver EXCEPT !.failures = @ + 1]
       \/ /\ solver.solutions < SolverBusy.solutions + MaxCount
          /\ solver' = [solver EXCEPT !.solutions = @ + 1]
    /\ hist' = [hist EXCEPT !.check = NoCheck]
    /\ UNCHANGED <<limit, collector, optimize, restart, search>>

NextLimit == LimitEnter \/ LimitPeriodicCheck \/ LimitTick

SpecLimit == InitLimit /\ [][NextLimit]_vars

---------------------------------------------------------------------------
(* Properties of RegularLimit (SpecLimit).                                 *)

\* C8 as stated: Check() returns true exactly when one of the four budgets
\* is exceeded (by the counter's advance since EnterSearch).
C8_Original ==
    (hist.check.called /\ hist.check.checked) =>
        (hist.check.fail <=> \/ hist.check.overBranches > 0
                             \/ hist.check.overFailures > 0
                             \/ hist.check.overTime > 0
                             \/ hist.check.overSolutions > 0)

\* C8 amended: Check() returns true exactly when the branches or the failures
\* budget is exceeded, or the solutions budget is reached (>=), or this call
\* polls the wall time and the time budget is exceeded.  The wall time is
\* polled when wall_time_ is not kint64max and next_check_ <= check_count_
\* (after its increment), which is every call unless smart_time_check has
\* scheduled a later poll.
C8_CheckIff ==
    (hist.check.called /\ hist.check.checked) =>
        /\ hist.check.fail <=> \/ hist.check.overBranches > 0
                               \/ hist.check.overFailures > 0
                               \/ hist.check.polled /\ hist.check.overTime > 0
                               \/ hist.check.overSolutions >= 0
        /\ (~limit.smart_time_check_ /\ limit.wall_time_ # kint64max)
              => hist.check.polled
        /\ limit.crossed_ = hist.check.fail

\* Check() returned true for the solutions budget being reached, not exceeded.
C8_Witness ==
    /\ hist.check.called /\ hist.check.checked /\ hist.check.fail
    /\ hist.check.overSolutions = 0
    /\ hist.check.overBranches <= 0 /\ hist.check.overFailures <= 0
    /\ hist.check.overTime <= 0

\* Under smart_time_check, Check() returned false with the time budget
\* exceeded, the poll being skipped.
C8_WitnessSkipped ==
    /\ hist.check.called /\ hist.check.checked /\ ~hist.check.fail
    /\ limit.smart_time_check_
    /\ ~hist.check.polled /\ hist.check.overTime > 0

AllBudgetsMax(l) ==
    /\ l.wall_time_ = kint64max /\ l.branches_ = kint64max
    /\ l.failures_ = kint64max /\ l.solutions_ = kint64max

\* C9: a RegularLimit with all four budgets at kint64max never trips: no
\* subtraction of Check() overflows, Check() returns false, PeriodicCheck
\* does not call Fail and crossed_ stays false.
C9_MaxBudgetsNeverTrip ==
    AllBudgetsMax(limit) =>
        /\ ~limit.crossed_
        /\ ~CheckOverflows(limit, solver)
        /\ hist.check.called =>
              /\ hist.check.checked
              /\ ~hist.check.fail
              /\ ~hist.check.overflow

\* Check() ran with every counter past its offset and past zero.
C9_Witness ==
    /\ AllBudgetsMax(limit)
    /\ hist.check.called /\ hist.check.checked /\ ~hist.check.fail
    /\ limit.branches_offset_ > 0 /\ solver.branches > limit.branches_offset_
    /\ limit.failures_offset_ > 0 /\ solver.failures > limit.failures_offset_
    /\ limit.solutions_offset_ > 0 /\ solver.solutions > limit.solutions_offset_
    /\ solver.wall_time > limit.wall_time_offset_
    /\ limit.check_count_ > 1

---------------------------------------------------------------------------
(* The engine boundary: finite domains and propagation.  The model of the  *)
(* searches has the variables vars_[0..size-1] and the objective           *)
(* obj = sum of the variables, with obj >= thr posted at the root.         *)
(* dom = [vars |-> the domains of the variables, obj |-> the objective's]. *)

MaxVal == 2         \* the variables range over 0 .. MaxVal

MinOf(S) == CHOOSE m \in S : \A x \in S : m <= x
MaxOf(S) == CHOOSE m \in S : \A x \in S : m >= x

Bound(D) == Cardinality(D) = 1

RECURSIVE SumSeq(_)
SumSeq(t) == IF t = <<>> THEN 0 ELSE t[1] + SumSeq(Tail(t))

RECURSIVE Assignments(_)
\* All tuples of values within the domains ds.
Assignments(ds) ==
    IF ds = <<>> THEN {<<>>}
    ELSE { <<v>> \o t : v \in ds[1], t \in Assignments(Tail(ds)) }

\* The tuples that satisfy the model within dom.
Feasible(dom) == { t \in Assignments(dom.vars) : SumSeq(t) \in dom.obj }

\* Propagation to the fixpoint: every domain keeps its supported values.
\* fail: some domain is empty (the engine calls Fail()).
Propagate(dom) ==
    LET ts == Feasible(dom)
    IN  [fail |-> ts = {},
         dom |-> [vars |-> [i \in DOMAIN dom.vars |-> { t[i] : t \in ts }],
                  obj |-> { SumSeq(t) : t \in ts }]]

\* var->SetValue(v), var->RemoveValue(v) on variable i (from 0).
VarSetValue(dom, i, v) ==
    Propagate([dom EXCEPT !.vars[i + 1] = @ \cap {v}])

VarRemoveValue(dom, i, v) ==
    Propagate([dom EXCEPT !.vars[i + 1] = @ \ {v}])

\* objective->SetMin(v), objective->SetMax(v).
ObjSetMin(dom, v) == Propagate([dom EXCEPT !.obj = { o \in @ : o >= v }])

ObjSetMax(dom, v) == Propagate([dom EXCEPT !.obj = { o \in @ : o <= v }])

InitialDomains(maxval, size) ==
    [vars |-> [i \in 1..size |-> 0..maxval], obj |-> 0..(size * maxval)]

---------------------------------------------------------------------------
(* Phase: FirstUnboundSelector + Min/MaxValueSelector, and the decision    *)
(* AssignOneVariableValue.                                                 *)

\* Select(): [found |-> a variable is returned (not NULL), id, first_ |-> the
\* cursor after SaveAndSetValue].
FirstUnboundSelectorSelect(first_, vars_) ==
    LET size_ == Len(vars_)
        unbound == { i \in first_..(size_ - 1) : ~Bound(vars_[i + 1]) }
    IN  IF unbound # {}
           THEN [found |-> TRUE, id |-> MinOf(unbound), first_ |-> MinOf(unbound)]
           ELSE [found |-> FALSE, id |-> size_, first_ |-> size_]

MinValueSelectorSelect(D) == MinOf(D)
MaxValueSelectorSelect(D) == MaxOf(D)

ValueSelectorSelect(strategy, D) ==
    IF strategy = "ASSIGN_MIN_VALUE"
       THEN MinValueSelectorSelect(D) ELSE MaxValueSelectorSelect(D)

NoDecision == [null |-> TRUE, var |-> 0, value |-> 0]

\* BaseAssignVariables::Next(): [d |-> the decision (or NoDecision for NULL),
\* first_ |-> the selector's cursor afterwards].
BaseAssignVariablesNext(strategy, first_, vars_) ==
    LET sel == FirstUnboundSelectorSelect(first_, vars_)
    IN  IF sel.found
           THEN [d |-> [null |-> FALSE, var |-> sel.id,
                        value |-> ValueSelectorSelect(strategy, vars_[sel.id + 1])],
                 first_ |-> sel.first_]
           ELSE [d |-> NoDecision, first_ |-> sel.first_]

AssignOneVariableValueApply(d, dom) == VarSetValue(dom, d.var, d.value)

\* Mutant: Refute removes nothing.
AssignOneVariableValueRefuteNothing(d, dom) == Propagate(dom)

AssignOneVariableValueRefute(d, dom) == VarRemoveValue(dom, d.var, d.value)

---------------------------------------------------------------------------
(* OptimizeVar.                                                            *)

NewOptimizeVar(maximize, step) ==
    [maximize_ |-> maximize, step_ |-> step, best_ |-> kint64max]

OptimizeVarEnterSearch(o) ==
    [o EXCEPT !.best_ = IF o.maximize_ THEN kint64min ELSE kint64max]

\* Mutant: the bound carries no step.
OptimizeVarApplyBoundNoStep(o, dom) ==
    IF o.maximize_
       THEN ObjSetMin(dom, o.best_)
       ELSE ObjSetMax(dom, o.best_)

\* ApplyBound(): the propagation result of the bound on the objective.
OptimizeVarApplyBound(o, dom) ==
    IF o.maximize_
       THEN ObjSetMin(dom, Wrap(o.best_ + o.step_))
       ELSE ObjSetMax(dom, Wrap(o.best_ - o.step_))

OptimizeVarRestartSearch(o, dom) == OptimizeVarApplyBound(o, dom)

OptimizeVarRefuteDecision(o, dom) == OptimizeVarApplyBound(o, dom)

\* AcceptSolution(), val being var_->Value().
OptimizeVarAcceptSolution(o, val) ==
    (o.maximize_ /\ val > o.best_) \/ (~o.maximize_ /\ val < o.best_)

\* Mutant: best_ is not updated.
OptimizeVarAtSolutionKeepsBest(o, val) == o

\* AtSolution(): the CHECK_GT / CHECK_LT aborts when val does not improve.
OptimizeVarAtSolutionCheck(o, val) ==
    IF o.maximize_ THEN val > o.best_ ELSE val < o.best_

OptimizeVarAtSolution(o, val) == [o EXCEPT !.best_ = val]

---------------------------------------------------------------------------
(* ConstantRestart.                                                        *)

NewConstantRestart(frequency) == [frequency_ |-> frequency, current_fails_ |-> 0]

\* BeginFail(): [restart |-> RestartCurrentSearch() is called, mon |-> the
\* monitor afterwards].
ConstantRestartBeginFail(r) ==
    IF r.current_fails_ + 1 >= r.frequency_
       THEN [restart |-> TRUE, mon |-> [r EXCEPT !.current_fails_ = 0]]
       ELSE [restart |-> FALSE, mon |-> [r EXCEPT !.current_fails_ = @ + 1]]

---------------------------------------------------------------------------
(* SpecSearch: the depth-first driver runs Phase(CHOOSE_FIRST_UNBOUND,     *)
(* ASSIGN_MIN_VALUE or ASSIGN_MAX_VALUE) with an OptimizeVar, a solution   *)
(* collector and, optionally, a RegularLimit on branches and a             *)
(* ConstantRestart.  The driver follows section 4.1 of the specification:  *)
(* its steps are the positions search.pc.                                  *)

MaxSearches == 2    \* searches run one after the other
MaxFailures == 30   \* failures followed in one search
MaxStep == 2        \* OptimizeVar steps 1 .. MaxStep

\* The models searched: the variables in 0..maxval, objective >= thr.
Problems ==
    { [size |-> 2, maxval |-> MaxVal, thr |-> t] : t \in 0..(2 * MaxVal + 1) }
    \cup { [size |-> 2, maxval |-> 5, thr |-> 3] }

\* What one search has done so far: the objective values at the AtSolution
\* events, the limit's trip and what followed it, the restarts.
NoHistory ==
    [sols |-> <<>>, tripped |-> FALSE, appliedAfterTrip |-> FALSE,
     passedAfterTrip |-> FALSE, failedAfterTrip |-> FALSE,
     acceptFalse |-> FALSE, checkFailed |-> FALSE, restarts |-> 0]

\* The state after construction, for the given OptimizeVar steps, collector
\* kinds, branch budgets, restart frequencies and models.
InitSearchWith(steps, kinds, budgets, frequencies, problems) ==
    /\ solver = SolverInit
    /\ \E maximize \in BOOLEAN, step \in steps :
         optimize = NewOptimizeVar(maximize, step)
    /\ \E kind \in kinds : collector = NewCollector(kind, TRUE, TRUE, FALSE)
    /\ \E b \in budgets :
         limit = NewRegularLimit(kint64max, b, kint64max, kint64max, FALSE)
    /\ \E f \in frequencies : restart = NewConstantRestart(f)
    /\ \E prob \in problems, strategy \in {"ASSIGN_MIN_VALUE", "ASSIGN_MAX_VALUE"},
          limitFirst \in BOOLEAN :
         search = [pc |-> "start", prob |-> prob, strategy |-> strategy,
                   limitFirst |-> limitFirst,
                   dom |-> InitialDomains(prob.maxval, prob.size),
                   first_ |-> 0, stack |-> <<>>, fd |-> NoDecision,
                   root |-> [dom |-> InitialDomains(prob.maxval, prob.size),
                             first_ |-> 0],
                   nsearch |-> 0, fails0 |-> 0]
    /\ limit.branches_ # kint64max \/ search.limitFirst
    /\ hist = NoHistory

InitSearch ==
    InitSearchWith(1..MaxStep, {"last", "all"}, {2, 5, kint64max},
                   {2, kint64max}, Problems)

\* The searches whose limit has a finite budget of branches.
InitSearchLimited ==
    InitSearchWith({1}, {"all"}, {2, 5}, {2, kint64max},
                   { p \in Problems : p.maxval = MaxVal })

\* EnterSearch is broadcast, then the initial propagation runs.
DriverEnterSearch ==
    /\ search.pc \in {"start", "done"}
    /\ search.nsearch < MaxSearches
    /\ optimize' = OptimizeVarEnterSearch(optimize)
    /\ collector' = CollectorEnterSearch(collector)
    /\ limit' = SearchLimitEnterSearch(limit, solver)
    /\ LET p == ObjSetMin(InitialDomains(search.prob.maxval, search.prob.size),
                          search.prob.thr)
       IN  /\ search' = [search EXCEPT
                  !.pc = IF p.fail THEN "done" ELSE "next",
                  !.dom = p.dom, !.first_ = 0, !.stack = <<>>, !.fd = NoDecision,
                  !.root = [dom |-> p.dom, first_ |-> 0],
                  !.nsearch = @ + 1,
                  !.fails0 = solver.failures]
           /\ solver' = IF p.fail THEN [solver EXCEPT !.failures = @ + 1] ELSE solver
    /\ hist' = NoHistory
    /\ UNCHANGED restart

\* The limit's PeriodicCheck as seen by the history: the first Check() that
\* returns true trips the limit; a later check that does not fail is recorded.
HistCheck(h, l, r) ==
    [h EXCEPT !.tripped = @ \/ (~l.crossed_ /\ r.fail),
              !.passedAfterTrip = @ \/ (h.tripped /\ ~r.fail),
              !.failedAfterTrip = @ \/ (h.tripped /\ r.fail)]

\* The current values at a solution node.
Current(dom) ==
    [vars |-> [i \in DOMAIN dom.vars |-> MinOf(dom.vars[i])],
     omin |-> MinOf(dom.obj), omax |-> MaxOf(dom.obj)]

\* The builder returned NULL: AcceptSolution, then AtSolution on every
\* monitor; OptimizeVar::AtSolution returns true, so the driver fails to
\* go on to the next solution.
DriverSolution ==
    LET cur == Current(search.dom)
        val == cur.omin
    IN  IF OptimizeVarAcceptSolution(optimize, val)
           THEN /\ solver' = [solver EXCEPT !.solutions = @ + 1]
                /\ optimize' = OptimizeVarAtSolution(optimize, val)
                /\ collector' = CollectorAtSolution(collector, solver', cur)
                /\ hist' = [hist EXCEPT
                              !.sols = Append(@, val),
                              !.checkFailed =
                                  @ \/ ~OptimizeVarAtSolutionCheck(optimize, val)]
           ELSE /\ hist' = [hist EXCEPT !.acceptFalse = TRUE]
                /\ UNCHANGED <<solver, optimize, collector>>

\* BeginNextDecision, Next, EndNextDecision, then either the solution or
\* the left branch: ApplyDecision, Apply, propagation.
DriverNextDecision ==
    /\ search.pc = "next"
    /\ LET r == PeriodicCheck(limit, solver)
           n == BaseAssignVariablesNext(search.strategy, search.first_,
                                        search.dom.vars)
           frame == [d |-> n.d, dom |-> search.dom, first_ |-> n.first_]
           a == AssignOneVariableValueApply(n.d, search.dom)
       IN  /\ limit' = r.lim
           /\ IF r.fail
                 THEN /\ search' = [search EXCEPT !.pc = "fail"]
                      /\ hist' = HistCheck(hist, limit, r)
                      /\ UNCHANGED <<solver, optimize, collector>>
                 ELSE IF n.d.null
                 THEN /\ search' = [search EXCEPT !.pc = "fail",
                                                  !.first_ = n.first_]
                      /\ DriverSolution
                 ELSE /\ search' = [search EXCEPT
                             !.pc = IF a.fail THEN "fail" ELSE "next",
                             !.first_ = n.first_,
                             !.stack = Append(@, frame),
                             !.dom = IF a.fail THEN @ ELSE a.dom]
                      /\ solver' = [solver EXCEPT !.branches = @ + 1]
                      /\ hist' = [HistCheck(hist, limit, r) EXCEPT
                                    !.appliedAfterTrip = @ \/ hist.tripped]
                      /\ UNCHANGED <<optimize, collector>>
    /\ UNCHANGED restart


\* A failure: the failure is counted, BeginFail is broadcast, and the search
\* either restarts from the root (RestartSearch is broadcast) or pops to the
\* nearest frame, whose decision is to be refuted; with no frame left the
\* search is over.
DriverFail ==
    /\ search.pc = "fail"
    /\ solver.failures - search.fails0 < MaxFailures
    /\ solver' = [solver EXCEPT !.failures = @ + 1]
    /\ LET rb == ConstantRestartBeginFail(restart)
           rs == OptimizeVarRestartSearch(optimize, search.root.dom)
           top == Last(search.stack)
       IN  /\ restart' = rb.mon
           /\ search' =
                IF rb.restart
                   THEN [search EXCEPT
                           !.pc = IF rs.fail THEN "fail" ELSE "next",
                           !.dom = IF rs.fail THEN search.root.dom ELSE rs.dom,
                           !.first_ = search.root.first_,
                           !.stack = <<>>, !.fd = NoDecision]
                ELSE IF search.stack = <<>>
                   THEN [search EXCEPT !.pc = "done", !.fd = NoDecision]
                   ELSE [search EXCEPT
                           !.pc = "refute", !.dom = top.dom,
                           !.first_ = top.first_, !.fd = top.d,
                           !.stack = ButLast(@)]
           /\ hist' = IF rb.restart THEN [hist EXCEPT !.restarts = @ + 1] ELSE hist
    /\ UNCHANGED <<collector, limit, optimize>>

\* The right branch: RefuteDecision is broadcast in registration order (the
\* limit's PeriodicCheck and OptimizeVar's ApplyBound; a monitor that fails
\* ends the broadcast), then Refute and propagation.
DriverRefute ==
    /\ search.pc = "refute"
    /\ LET r == PeriodicCheck(limit, solver)
           b == OptimizeVarRefuteDecision(optimize, search.dom)
           limitCalled == search.limitFirst \/ ~b.fail
           limitFails == limitCalled /\ r.fail
           boundFails == b.fail /\ ~(search.limitFirst /\ r.fail)
           f == AssignOneVariableValueRefute(search.fd, b.dom)
           failed == limitFails \/ boundFails \/ f.fail
       IN  /\ limit' = IF limitCalled THEN r.lim ELSE limit
           /\ hist' = IF limitCalled
                         THEN [HistCheck(hist, limit, r) EXCEPT
                                 !.appliedAfterTrip =
                                     @ \/ (hist.tripped /\ ~limitFails /\ ~boundFails)]
                         ELSE hist
           /\ solver' = IF limitFails \/ boundFails THEN solver
                        ELSE [solver EXCEPT !.branches = @ + 1]
           /\ search' = [search EXCEPT
                           !.pc = IF failed THEN "fail" ELSE "next",
                           !.dom = IF failed THEN @ ELSE f.dom,
                           !.fd = NoDecision]
    /\ UNCHANGED <<collector, optimize, restart>>

NextSearch ==
    \/ DriverEnterSearch
    \/ DriverNextDecision
    \/ DriverFail
    \/ DriverRefute

SpecSearch == InitSearch /\ [][NextSearch]_vars

\* The search with the driver's steps taken as long as one is possible.
SpecSearchFair ==
    InitSearchLimited /\ [][NextSearch]_vars /\ WF_vars(NextSearch)

---------------------------------------------------------------------------
(* Properties of the searches.                                             *)

\* The search has been entered and its model is satisfiable at the root.
SearchEntered == search.nsearch > 0

\* The objective values of the model's solutions.
FeasibleObjectives(prob) ==
    { SumSeq(t) : t \in { u \in Assignments(InitialDomains(prob.maxval, prob.size).vars) :
                            SumSeq(u) >= prob.thr } }

\* C1: once AtSolution has recorded a solution of value b, every later
\* solution of the same search, whatever RefuteDecision and RestartSearch
\* events lie in between, has objective >= b + step when maximizing and
\* <= b - step when minimizing.
C1_LaterSolutionsBeyondStep ==
    \A i \in 1..Len(hist.sols) : \A j \in (i + 1)..Len(hist.sols) :
        IF optimize.maximize_
           THEN hist.sols[j] >= hist.sols[i] + optimize.step_
           ELSE hist.sols[j] <= hist.sols[i] - optimize.step_

\* Two solutions of one search with a restart in it, the step being 2.
C1_Witness ==
    /\ Len(hist.sols) >= 2
    /\ hist.restarts >= 1
    /\ optimize.step_ = 2
    /\ optimize.maximize_

\* Later solutions after refutations only, minimizing.
C1_WitnessRefute ==
    /\ Len(hist.sols) >= 3
    /\ hist.restarts = 0
    /\ ~optimize.maximize_

\* C2: within one search best_ starts on the worst side, is strictly
\* increasing (maximize) or strictly decreasing (minimize) across the
\* AtSolution events, and after each AtSolution equals the objective value
\* of that solution; the strict-improvement assertion never aborts.
C2_BestMonotone ==
    SearchEntered =>
        /\ ~hist.checkFailed
        /\ optimize.best_ =
             IF hist.sols # <<>> THEN Last(hist.sols)
             ELSE IF optimize.maximize_ THEN kint64min ELSE kint64max
        /\ \A i \in 1..(Len(hist.sols) - 1) :
             IF optimize.maximize_
                THEN hist.sols[i] < hist.sols[i + 1]
                ELSE hist.sols[i] > hist.sols[i + 1]

C2_Witness ==
    /\ search.nsearch = 2
    /\ Len(hist.sols) >= 2
    /\ optimize.best_ = Last(hist.sols)

\* C3: Phase + OptimizeVar(minimize, step 1) + LastSolutionCollector over a
\* satisfiable model: when the tree is exhausted the collector holds one
\* solution, whose objective value is the minimum feasible one; for
\* x, y in [0,5] with x + y >= 3 that value is 3.
CompleteMinimize ==
    /\ SearchEntered
    /\ search.pc = "done"
    /\ ~hist.tripped
    /\ ~optimize.maximize_ /\ optimize.step_ = 1
    /\ collector.kind = "last"
    /\ FeasibleObjectives(search.prob) # {}

C3_MinimumCollected ==
    CompleteMinimize =>
        /\ solution_count(collector) = 1
        /\ Len(collector.objective_values_) = 1
        /\ collector.objective_values_[1] = MinOf(FeasibleObjectives(search.prob))
        /\ ObjectiveValue(collector.heap[collector.solutions_[1]])
             = MinOf(FeasibleObjectives(search.prob))
        /\ SumSeq(collector.heap[collector.solutions_[1]].vars)
             = MinOf(FeasibleObjectives(search.prob))
        /\ (search.prob = [size |-> 2, maxval |-> 5, thr |-> 3]
              => collector.objective_values_[1] = 3)

C3_Witness ==
    /\ CompleteMinimize
    /\ search.prob = [size |-> 2, maxval |-> 5, thr |-> 3]
    /\ Len(hist.sols) >= 2
    /\ collector.objective_values_ = <<3>>

\* What holds in every state of a search whose limit has tripped: crossed_
\* is true (and it is true only then: EnterSearch resets it), no check has
\* passed since and no decision has been applied or refuted since.
TrippedState ==
    SearchEntered =>
        /\ limit.crossed_ <=> hist.tripped
        /\ hist.tripped => ~hist.passedAfterTrip /\ ~hist.appliedAfterTrip

\* A step of a search whose limit has tripped opens no branch and only
\* unwinds the frames.
TrippedStep ==
    (hist.tripped /\ hist'.tripped) =>
        /\ solver'.branches = solver.branches
        /\ solver'.solutions = solver.solutions
        /\ Len(search'.stack) <= Len(search.stack)

\* C10: once a PeriodicCheck saw Check() return true, crossed_ stays true
\* and every later BeginNextDecision and RefuteDecision of the same search
\* fails, until the next EnterSearch resets crossed_; no further decision is
\* applied and the search unwinds to the root and ends.
C10_TrippedLimitUnwinds ==
    /\ []TrippedState
    /\ [][TrippedStep]_vars
    /\ (hist.tripped ~> (search.pc = "done" /\ search.stack = <<>>))

\* A tripped search that has failed later checks and has ended.
C10_Witness ==
    /\ hist.tripped /\ hist.failedAfterTrip
    /\ limit.crossed_
    /\ search.pc = "done"
    /\ solver.branches - limit.branches_offset_ > limit.branches_

\* A second search, after a tripped one, runs on with crossed_ reset.
C10_WitnessReentered ==
    /\ search.nsearch = 2
    /\ limit.branches_offset_ > limit.branches_
    /\ ~limit.crossed_ /\ ~hist.tripped
    /\ solver.branches > limit.branches_offset_

---------------------------------------------------------------------------
(* NextLuby and LubyRestart.                                               *)

MaxLubyIndex == 40   \* NextLuby is called with 1 .. MaxLubyIndex
MaxScale == 3        \* LubyRestart scale factors 1 .. MaxScale
MaxLubyFails == 50   \* BeginFail events followed per LubyRestart

\* The steps of NextLuby(i): power <<= 1, the result power / 2, and the
\* argument of the recursive call.
NextLubyShift(power) == power * 2

\* Mutant: the power itself is returned.
NextLubyResultWhole(power) == power

NextLubyResult(power) == power \div 2

NextLubyRecursiveArg(i, power) == i - (power \div 2) + 1

RECURSIVE NextLubyPower(_, _)
\* The while loop: the least power of 2 >= i + 1, starting from power.
NextLubyPower(power, i) ==
    IF power < i + 1 THEN NextLubyPower(NextLubyShift(power), i) ELSE power

RECURSIVE NextLuby(_)
NextLuby(i) ==
    LET power == NextLubyPower(2, i)
    IN  IF power = i + 1
           THEN NextLubyResult(power)
           ELSE NextLuby(NextLubyRecursiveArg(i, power))

\* SpecNextLuby: one call NextLuby(arg), followed statement by statement;
\* search.depth counts the recursive calls.
InitNextLuby ==
    /\ \E i \in 1..MaxLubyIndex :
         search = [arg |-> i, i |-> i, power |-> 2, pc |-> "loop",
                   depth |-> 0, result |-> 0]
    /\ solver = Idle /\ collector = Idle /\ limit = Idle /\ optimize = Idle
    /\ restart = Idle /\ hist = Idle

NextLubyLoop ==
    /\ search.pc = "loop"
    /\ search' = IF search.power < search.i + 1
                    THEN [search EXCEPT !.power = NextLubyShift(@)]
                    ELSE [search EXCEPT !.pc = "test"]
    /\ UNCHANGED <<solver, collector, limit, optimize, restart, hist>>

NextLubyReturn ==
    /\ search.pc = "test"
    /\ search.power = search.i + 1
    /\ search' = [search EXCEPT !.pc = "done",
                                !.result = NextLubyResult(search.power)]
    /\ UNCHANGED <<solver, collector, limit, optimize, restart, hist>>

NextLubyRecurse ==
    /\ search.pc = "test"
    /\ search.power # search.i + 1
    /\ search' = [search EXCEPT
                    !.i = NextLubyRecursiveArg(search.i, search.power),
                    !.power = 2, !.pc = "loop", !.depth = @ + 1]
    /\ UNCHANGED <<solver, collector, limit, optimize, restart, hist>>

NextNextLuby == NextLubyLoop \/ NextLubyReturn \/ NextLubyRecurse

SpecNextLuby ==
    InitNextLuby /\ [][NextNextLuby]_vars /\ WF_vars(NextNextLuby)

RECURSIVE Pow2(_)
Pow2(k) == IF k = 0 THEN 1 ELSE 2 * Pow2(k - 1)

RECURSIVE LubyPrefix(_)
\* The classical Luby sequence, built block by block: the block of order k
\* is the block of order k - 1 twice, followed by 2^(k-1).
LubyPrefix(k) ==
    IF k = 1 THEN <<1>>
    ELSE LubyPrefix(k - 1) \o LubyPrefix(k - 1) \o <<Pow2(k - 1)>>

RECURSIVE LubyOrder(_, _)
\* The least order k >= k0 whose block has at least n terms.
LubyOrder(k0, n) == IF Pow2(k0) - 1 >= n THEN k0 ELSE LubyOrder(k0 + 1, n)

Luby(i) == LubyPrefix(LubyOrder(1, i))[i]

Luby16 == <<1, 1, 2, 1, 1, 2, 4, 1, 1, 2, 1, 1, 2, 4, 8, 1>>

\* What holds of a call in every state: the argument of each recursive
\* call stays in 1 .. arg, and a finished call has returned the Luby term.
NextLubyState ==
    /\ search.i >= 1 /\ search.i <= search.arg
    /\ search.pc = "done" =>
         /\ search.result = Luby(search.arg)
         /\ search.result = NextLuby(search.arg)
         /\ search.arg <= 16 => search.result = Luby16[search.arg]

\* C12: NextLuby(i) terminates and equals the classical Luby sequence for
\* every i in 1 .. MaxLubyIndex; NextLuby(1..16) is
\* 1,1,2,1,1,2,4,1,1,2,1,1,2,4,8,1.
C12_NextLubyIsLuby == []NextLubyState /\ <>(search.pc = "done")

\* The call NextLuby(29) has recursed twice (on 14, then 7) and returned 4.
C12_Witness ==
    /\ search.pc = "done"
    /\ search.arg = 29
    /\ search.depth = 2
    /\ search.result = 4

---------------------------------------------------------------------------
(* LubyRestart.                                                            *)

NewLubyRestart(scale_factor) ==
    [scale_factor_ |-> scale_factor, iteration_ |-> 1, current_fails_ |-> 0,
     next_step_ |-> scale_factor]

\* Mutant: iteration_ is incremented after the call of NextLuby.
LubyRestartBeginFailPostIncrement(r) ==
    IF r.current_fails_ + 1 >= r.next_step_
       THEN [restart |-> TRUE,
             mon |-> [r EXCEPT !.current_fails_ = 0,
                               !.iteration_ = @ + 1,
                               !.next_step_ =
                                   Wrap(NextLuby(r.iteration_) * r.scale_factor_)]]
       ELSE [restart |-> FALSE, mon |-> [r EXCEPT !.current_fails_ = @ + 1]]

\* BeginFail(): [restart |-> RestartCurrentSearch() is called, mon |-> the
\* monitor afterwards].
LubyRestartBeginFail(r) ==
    IF r.current_fails_ + 1 >= r.next_step_
       THEN [restart |-> TRUE,
             mon |-> [r EXCEPT !.current_fails_ = 0,
                               !.iteration_ = @ + 1,
                               !.next_step_ =
                                   Wrap(NextLuby(r.iteration_ + 1) * r.scale_factor_)]]
       ELSE [restart |-> FALSE, mon |-> [r EXCEPT !.current_fails_ = @ + 1]]

\* SpecLuby: a LubyRestart receives BeginFail events; hist.fails counts them
\* from construction and hist.restartsAt lists the counts at which
\* RestartCurrentSearch was called.
InitLuby ==
    /\ \E scale \in 1..MaxScale : restart = NewLubyRestart(scale)
    /\ hist = [fails |-> 0, restartsAt |-> <<>>]
    /\ solver = Idle /\ collector = Idle /\ limit = Idle /\ optimize = Idle
    /\ search = Idle

LubyBeginFail ==
    /\ hist.fails < MaxLubyFails
    /\ LET r == LubyRestartBeginFail(restart)
       IN  /\ restart' = r.mon
           /\ hist' = [fails |-> hist.fails + 1,
                       restartsAt |-> IF r.restart
                                         THEN Append(hist.restartsAt, hist.fails + 1)
                                         ELSE hist.restartsAt]
    /\ UNCHANGED <<solver, collector, limit, optimize, search>>

NextLubyRestart == LubyBeginFail

SpecLuby == InitLuby /\ [][NextLubyRestart]_vars

RECURSIVE LubySum(_)
\* Luby(1) + ... + Luby(k).
LubySum(k) == IF k = 0 THEN 0 ELSE LubySum(k - 1) + Luby(k)

\* C11: counting the BeginFail events from construction, the k-th
\* RestartCurrentSearch of LubyRestart(scale) happens at exactly the
\* (scale * (Luby(1) + ... + Luby(k)))-th BeginFail, and at no other one.
C11_LubyRestartSchedule ==
    /\ \A k \in 1..Len(hist.restartsAt) :
         hist.restartsAt[k] = restart.scale_factor_ * LubySum(k)
    /\ restart.scale_factor_ * LubySum(Len(hist.restartsAt) + 1) > hist.fails

\* Seven restarts of LubyRestart(2): the last at failure 2 * (1+1+2+1+1+2+4).
C11_Witness ==
    /\ restart.scale_factor_ = 2
    /\ Len(hist.restartsAt) = 7
    /\ hist.restartsAt[7] = 24
    /\ hist.fails > 24

---------------------------------------------------------------------------
(* TabuSearch.  The tracked variables are vars_[0..size_-1]; a tabu entry  *)
(* is [var_, value_, stamp_]; the front of a list is its first element.    *)

MaxStamp == 6           \* agings followed per TabuSearch
MaxTenure == 2          \* tenures 0 and MaxTenure
MaxTabuSize == 2        \* tracked variables, each with value 0 or 1

NewTabuSearch(maximize, step, size, keep_tenure, forbid_tenure) ==
    [maximize_ |-> maximize, step_ |-> step,
     current_ |-> kint64max, best_ |-> kint64max, last_ |-> kint64max,
     size_ |-> size, assignment_ |-> [i \in 1..size |-> 0], stored |-> FALSE,
     keep_tabu_list_ |-> <<>>, keep_tenure_ |-> keep_tenure,
     forbid_tabu_list_ |-> <<>>, forbid_tenure_ |-> forbid_tenure,
     stamp_ |-> 0]

\* EnterSearch(), omin and omax being objective_->Min() and Max().
TabuSearchEnterSearch(t, omin, omax) ==
    LET b == IF t.maximize_ THEN omin ELSE omax
    IN  [t EXCEPT !.best_ = b, !.current_ = b]

RECURSIVE TabuNewEntriesPushBack(_, _, _, _, _)
\* Mutant: the new entries are pushed at the back of the lists.
TabuNewEntriesPushBack(t, values, i, keep, forbid) ==
    IF i >= t.size_ THEN [keep |-> keep, forbid |-> forbid]
    ELSE LET old_value == t.assignment_[i + 1]
             new_value == values[i + 1]
         IN  IF old_value # new_value
                THEN TabuNewEntriesPushBack(t, values, i + 1,
                       keep \o
                       <<[var_ |-> i, value_ |-> new_value, stamp_ |-> t.stamp_]>>,
                       forbid \o
                       <<[var_ |-> i, value_ |-> old_value, stamp_ |-> t.stamp_]>>)
                ELSE TabuNewEntriesPushBack(t, values, i + 1, keep, forbid)

RECURSIVE TabuNewEntries(_, _, _, _, _)
\* The loop of AtSolution from index i on: the lists after the push_front
\* of the changed variables.
TabuNewEntries(t, values, i, keep, forbid) ==
    IF i >= t.size_ THEN [keep |-> keep, forbid |-> forbid]
    ELSE LET old_value == t.assignment_[i + 1]
             new_value == values[i + 1]
         IN  IF old_value # new_value
                THEN TabuNewEntries(t, values, i + 1,
                       <<[var_ |-> i, value_ |-> new_value, stamp_ |-> t.stamp_]>>
                           \o keep,
                       <<[var_ |-> i, value_ |-> old_value, stamp_ |-> t.stamp_]>>
                           \o forbid)
                ELSE TabuNewEntries(t, values, i + 1, keep, forbid)

\* Mutant: the lists are updated from the first solution on.
TabuSearchAtSolutionAlways(t, val, values) ==
    LET l == TabuNewEntries(t, values, 0, t.keep_tabu_list_, t.forbid_tabu_list_)
    IN  [t EXCEPT !.best_ = IF t.maximize_ THEN MaxOf({val, t.best_})
                                           ELSE MinOf({val, t.best_}),
                  !.current_ = val, !.last_ = val,
                  !.keep_tabu_list_ = l.keep, !.forbid_tabu_list_ = l.forbid,
                  !.assignment_ = values, !.stored = TRUE]

\* AtSolution(), val being objective_->Value() and values the variables'.
TabuSearchAtSolution(t, val, values) ==
    LET l == IF t.stamp_ # 0
                THEN TabuNewEntries(t, values, 0,
                                    t.keep_tabu_list_, t.forbid_tabu_list_)
                ELSE [keep |-> t.keep_tabu_list_, forbid |-> t.forbid_tabu_list_]
    IN  [t EXCEPT !.best_ = IF t.maximize_ THEN MaxOf({val, t.best_})
                                           ELSE MinOf({val, t.best_}),
                  !.current_ = val, !.last_ = val,
                  !.keep_tabu_list_ = l.keep, !.forbid_tabu_list_ = l.forbid,
                  !.assignment_ = values, !.stored = TRUE]

RECURSIVE AgeList(_, _, _)
\* AgeList(tenure, list) at stamp_ = stamp.
AgeList(stamp, tenure, list) ==
    IF list # <<>> /\ Last(list).stamp_ < stamp - tenure
       THEN AgeList(stamp, tenure, ButLast(list))
       ELSE list

\* Mutant: the stamp is incremented before the lists are aged.
AgeListsStampFirst(t) ==
    [t EXCEPT !.keep_tabu_list_ = AgeList(t.stamp_ + 1, t.keep_tenure_, @),
              !.forbid_tabu_list_ = AgeList(t.stamp_ + 1, t.forbid_tenure_, @),
              !.stamp_ = @ + 1]

AgeLists(t) ==
    [t EXCEPT !.keep_tabu_list_ = AgeList(t.stamp_, t.keep_tenure_, @),
              !.forbid_tabu_list_ = AgeList(t.stamp_, t.forbid_tenure_, @),
              !.stamp_ = @ + 1]

TabuSearchLocalOptimum(t) ==
    [AgeLists(t) EXCEPT !.current_ = IF t.maximize_ THEN kint64min ELSE kint64max]

TabuSearchAcceptNeighbor(t) == IF t.stamp_ # 0 THEN AgeLists(t) ELSE t


\* SpecTabu: a TabuSearch receives EnterSearch, then AtSolution,
\* LocalOptimum and AcceptNeighbor events; a LocalOptimum or an
\* AcceptNeighbor lies between two solutions.  A solution differs from the
\* stored one in no variable, in the first one or in all of them.  The
\* objective is the sum of the tracked variables.  hist keeps the last
\* event, the monitor before it, and cyc, the length (from 9 on: 7, 8, 9) of
\* the run of events LocalOptimum, AcceptNeighbor, AtSolution,
\* LocalOptimum, ... that ends with the last event.
TabuTenures == {0, MaxTenure}

TabuValues(t) ==
    { [i \in 1..t.size_ |-> IF i \in C THEN 1 - t.assignment_[i]
                                         ELSE t.assignment_[i]] :
        C \in {{}, {1}, 1..t.size_} }

InitTabu ==
    /\ \E maximize \in BOOLEAN, k \in TabuTenures :
         optimize = TabuSearchEnterSearch(
                        NewTabuSearch(maximize, 1, MaxTabuSize, k, MaxTenure),
                        0, MaxTabuSize)
    /\ hist = [last |-> "EnterSearch", before |-> optimize, cyc |-> 0]
    /\ solver = Idle /\ collector = Idle /\ limit = Idle /\ restart = Idle
    /\ search = Idle

TabuCycle(cyc, event) ==
    LET expected == CASE cyc % 3 = 0 -> "LocalOptimum"
                      [] cyc % 3 = 1 -> "AcceptNeighbor"
                      [] OTHER -> "AtSolution"
    IN  IF event = expected THEN (IF cyc = 9 THEN 7 ELSE cyc + 1)
        ELSE IF event = "LocalOptimum" THEN 1 ELSE 0

TabuObserve(event) ==
    hist' = [last |-> event, before |-> optimize,
             cyc |-> TabuCycle(hist.cyc, event)]

TabuAtSolution ==
    /\ hist.last # "AtSolution"
    /\ \E values \in TabuValues(optimize) :
         optimize' = TabuSearchAtSolution(optimize, SumSeq(values), values)
    /\ TabuObserve("AtSolution")
    /\ UNCHANGED <<solver, collector, limit, restart, search>>

TabuLocalOptimum ==
    /\ optimize.stamp_ < MaxStamp
    /\ optimize' = TabuSearchLocalOptimum(optimize)
    /\ TabuObserve("LocalOptimum")
    /\ UNCHANGED <<solver, collector, limit, restart, search>>

TabuAcceptNeighbor ==
    /\ optimize.stamp_ < MaxStamp
    /\ optimize' = TabuSearchAcceptNeighbor(optimize)
    /\ TabuObserve("AcceptNeighbor")
    /\ UNCHANGED <<solver, collector, limit, restart, search>>

NextTabu == TabuAtSolution \/ TabuLocalOptimum \/ TabuAcceptNeighbor

SpecTabu == InitTabu /\ [][NextTabu]_vars

\* The stamps of the entries of a list.
Stamps(list) == { list[i].stamp_ : i \in 1..Len(list) }

\* The last event was a LocalOptimum or an AcceptNeighbor.
TabuAged == hist.last \in {"LocalOptimum", "AcceptNeighbor"}

\* C13 as stated: after every LocalOptimum or AcceptNeighbor no list holds
\* an entry whose stamp is less than stamp_ minus the list's tenure.
C13_Original ==
    TabuAged =>
        /\ \A s \in Stamps(optimize.keep_tabu_list_) :
             s >= optimize.stamp_ - optimize.keep_tenure_
        /\ \A s \in Stamps(optimize.forbid_tabu_list_) :
             s >= optimize.stamp_ - optimize.forbid_tenure_

\* The entries of a list that an aging at the given stamp keeps.
Young(list, stamp, tenure) ==
    SelectSeq(list, LAMBDA e : e.stamp_ >= stamp - tenure)

\* C13, amended: an aging compares with the stamp before its increment:
\* after a LocalOptimum, or an AcceptNeighbor with stamp_ # 0, each list
\* holds exactly its entries whose stamp is at least stamp_ - 1 - tenure
\* (stamp_ being the incremented one); with both tenures 2, after three
\* cycles LocalOptimum, AcceptNeighbor, AtSolution only entries stamped in
\* the last two cycles remain.
C13_AgedLists ==
    /\ TabuAged /\ optimize.stamp_ # 0 =>
         /\ optimize.stamp_ = hist.before.stamp_ + 1
         /\ optimize.keep_tabu_list_ =
              Young(hist.before.keep_tabu_list_, optimize.stamp_ - 1,
                    optimize.keep_tenure_)
         /\ optimize.forbid_tabu_list_ =
              Young(hist.before.forbid_tabu_list_, optimize.stamp_ - 1,
                    optimize.forbid_tenure_)
         /\ \A s \in Stamps(optimize.keep_tabu_list_) :
              s >= optimize.stamp_ - 1 - optimize.keep_tenure_
         /\ \A s \in Stamps(optimize.forbid_tabu_list_) :
              s >= optimize.stamp_ - 1 - optimize.forbid_tenure_
    /\ TabuAged /\ optimize.stamp_ = 0 =>
         optimize.keep_tabu_list_ = <<>> /\ optimize.forbid_tabu_list_ = <<>>
    /\ (/\ hist.cyc = 9
        /\ optimize.keep_tenure_ = 2 /\ optimize.forbid_tenure_ = 2) =>
         /\ Stamps(optimize.keep_tabu_list_)
              \subseteq {optimize.stamp_ - 2, optimize.stamp_}
         /\ Stamps(optimize.forbid_tabu_list_)
              \subseteq {optimize.stamp_ - 2, optimize.stamp_}

\* An aging has dropped an entry and kept one whose stamp is
\* stamp_ - 1 - tenure.
C13_Witness ==
    /\ TabuAged
    /\ optimize.keep_tenure_ = 2
    /\ Len(optimize.keep_tabu_list_) < Len(hist.before.keep_tabu_list_)
    /\ optimize.stamp_ - 3 \in Stamps(optimize.keep_tabu_list_)

\* Three cycles with tenures 2: the entries of the first cycle are gone,
\* those of the second and third remain.
C13_WitnessCycles ==
    /\ hist.cyc = 9
    /\ optimize.keep_tenure_ = 2 /\ optimize.forbid_tenure_ = 2
    /\ Stamps(optimize.keep_tabu_list_) = {optimize.stamp_ - 2, optimize.stamp_}
    /\ Stamps(optimize.forbid_tabu_list_) = {optimize.stamp_ - 2, optimize.stamp_}


\* The tracked variables (from 1) whose value in the solution differs from
\* the stored one.
TabuChanged(before, after) ==
    { i \in 1..before.size_ : before.assignment_[i] # after.assignment_[i] }

\* list is the old list with, pushed in front of it, exactly one entry
\* [i - 1, value(i), stamp] for every i of changed.
TabuPushed(list, old, changed, value(_), stamp) ==
    LET n == Len(list) - Len(old)
    IN  /\ n = Cardinality(changed)
        /\ SubSeq(list, n + 1, Len(list)) = old
        /\ \A i \in changed :
             \E j \in 1..n :
                list[j] = [var_ |-> i - 1, value_ |-> value(i), stamp_ |-> stamp]

\* C14: at AtSolution with stamp_ # 0, every tracked variable whose value
\* differs from the one stored at the previous AtSolution adds exactly one
\* entry (var, new value, stamp_) to the keep list and exactly one entry
\* (var, old value, stamp_) to the forbid list, an unchanged variable adds
\* nothing; with stamp_ = 0 both lists are left unchanged.
C14_AtSolutionEntries ==
    hist.last = "AtSolution" =>
        LET before == hist.before
            changed == TabuChanged(before, optimize)
            new(i) == optimize.assignment_[i]
            old(i) == before.assignment_[i]
        IN  /\ optimize.stamp_ = before.stamp_
            /\ (before.stamp_ # 0 /\ before.stored) =>
                 /\ TabuPushed(optimize.keep_tabu_list_, before.keep_tabu_list_,
                               changed, new, before.stamp_)
                 /\ TabuPushed(optimize.forbid_tabu_list_,
                               before.forbid_tabu_list_, changed, old,
                               before.stamp_)
            /\ before.stamp_ = 0 =>
                 /\ optimize.keep_tabu_list_ = before.keep_tabu_list_
                 /\ optimize.forbid_tabu_list_ = before.forbid_tabu_list_

\* A solution after the first local optimum with one variable changed and
\* one unchanged, the lists holding older entries.
C14_Witness ==
    /\ hist.last = "AtSolution"
    /\ hist.before.stamp_ # 0 /\ hist.before.stored
    /\ Cardinality(TabuChanged(hist.before, optimize)) = 1
    /\ hist.before.keep_tabu_list_ # <<>>
    /\ Len(optimize.keep_tabu_list_) = Len(hist.before.keep_tabu_list_) + 1

\* A solution with stamp_ = 0 that changes every variable.
C14_WitnessFirst ==
    /\ hist.last = "AtSolution"
    /\ hist.before.stamp_ = 0 /\ hist.before.stored
    /\ Cardinality(TabuChanged(hist.before, optimize)) = optimize.size_
    /\ optimize.keep_tabu_list_ = <<>>

---------------------------------------------------------------------------
(* The penalties of GuidedLocalSearch.  An arc is <<first, second>>: the   *)
(* index of a variable and a value.                                        *)

MaxGlsSize == 2      \* tracked variables of a GuidedLocalSearch
MaxGlsVal == 2       \* their values 0 .. MaxGlsVal
MaxIncrements == 4   \* Increment calls followed per penalty store

\* Bitmap(size, false), Set and Get.
NewBitmap(size) == [i \in 1..size |-> FALSE]

BitmapSet(b, i, value) == [b EXCEPT ![i + 1] = value]

BitmapGet(b, i) == b[i + 1]

\* vector::resize(n, 0) of a row that is shorter than n.
Resize(row, n) == row \o [k \in 1..(n - Len(row)) |-> 0]

NewGuidedLocalSearchPenaltiesTable(size) ==
    [kind |-> "table", penalties_ |-> [i \in 1..size |-> <<>>],
     has_values_ |-> FALSE]

GuidedLocalSearchPenaltiesTableIncrement(p, arc) ==
    LET first_penalties == p.penalties_[arc[1] + 1]
        second == arc[2]
        resized == IF second >= Len(first_penalties)
                      THEN Resize(first_penalties, second + 1)
                      ELSE first_penalties
    IN  [p EXCEPT !.penalties_[arc[1] + 1] =
                      [resized EXCEPT ![second + 1] = @ + 1],
                  !.has_values_ = TRUE]

GuidedLocalSearchPenaltiesTableValue(p, arc) ==
    LET first_penalties == p.penalties_[arc[1] + 1]
        second == arc[2]
    IN  IF second >= Len(first_penalties) THEN 0 ELSE first_penalties[second + 1]

GuidedLocalSearchPenaltiesTableHasValues(p) == p.has_values_

\* penalties_ is the hash_map: a function from the arcs it holds.
NewGuidedLocalSearchPenaltiesMap(size) ==
    [kind |-> "map", penalties_ |-> <<>>, keys |-> {},
     penalized_ |-> NewBitmap(size)]

\* Mutant: the bitmap is not set.
GuidedLocalSearchPenaltiesMapIncrementNoBitmap(p, arc) ==
    [p EXCEPT !.penalties_ =
                  [a \in p.keys \cup {arc} |->
                      IF a = arc
                         THEN (IF arc \in p.keys THEN p.penalties_[arc] ELSE 0) + 1
                         ELSE p.penalties_[a]],
              !.keys = @ \cup {arc}]

GuidedLocalSearchPenaltiesMapIncrement(p, arc) ==
    [p EXCEPT !.penalties_ =
                  [a \in p.keys \cup {arc} |->
                      IF a = arc
                         THEN (IF arc \in p.keys THEN p.penalties_[arc] ELSE 0) + 1
                         ELSE p.penalties_[a]],
              !.keys = @ \cup {arc},
              !.penalized_ = BitmapSet(@, arc[1], TRUE)]

GuidedLocalSearchPenaltiesMapValue(p, arc) ==
    IF BitmapGet(p.penalized_, arc[1])
       THEN (IF arc \in p.keys THEN p.penalties_[arc] ELSE 0)
       ELSE 0

GuidedLocalSearchPenaltiesMapHasValues(p) == p.keys # {}

\* The virtual calls on GuidedLocalSearchPenalties.
PenaltiesIncrement(p, arc) ==
    IF p.kind = "table" THEN GuidedLocalSearchPenaltiesTableIncrement(p, arc)
                        ELSE GuidedLocalSearchPenaltiesMapIncrement(p, arc)

PenaltiesValue(p, arc) ==
    IF p.kind = "table" THEN GuidedLocalSearchPenaltiesTableValue(p, arc)
                        ELSE GuidedLocalSearchPenaltiesMapValue(p, arc)

PenaltiesHasValues(p) ==
    IF p.kind = "table" THEN GuidedLocalSearchPenaltiesTableHasValues(p)
                        ELSE GuidedLocalSearchPenaltiesMapHasValues(p)

\* SpecPenalties: a dense and a sparse store of one size receive the same
\* Increment calls; hist.count counts them arc by arc.
GlsArcs(size) == (0..(size - 1)) \X (0..MaxGlsVal)

InitPenalties ==
    /\ \E size \in 1..MaxGlsSize :
         /\ search = [size |-> size,
                      table |-> NewGuidedLocalSearchPenaltiesTable(size),
                      map |-> NewGuidedLocalSearchPenaltiesMap(size)]
         /\ hist = [n |-> 0, count |-> [a \in GlsArcs(size) |-> 0]]
    /\ solver = Idle /\ collector = Idle /\ limit = Idle /\ optimize = Idle
    /\ restart = Idle

PenaltiesIncrementBoth ==
    /\ hist.n < MaxIncrements
    /\ \E arc \in GlsArcs(search.size) :
         /\ search' = [search EXCEPT
                         !.table = PenaltiesIncrement(@, arc),
                         !.map = PenaltiesIncrement(@, arc)]
         /\ hist' = [n |-> hist.n + 1,
                     count |-> [hist.count EXCEPT ![arc] = @ + 1]]
    /\ UNCHANGED <<solver, collector, limit, optimize, restart>>

NextPenalties == PenaltiesIncrementBoth

SpecPenalties == InitPenalties /\ [][NextPenalties]_vars

\* C16: after the same Increment calls on arcs (i, v), 0 <= i < size and
\* v >= 0, the dense and the sparse store return the same Value for every
\* arc, the number of increments of the arc, and the same HasValues().
C16_StoresEquivalent ==
    /\ \A i \in 0..(search.size - 1), v \in 0..(MaxGlsVal + 1) :
         /\ PenaltiesValue(search.table, <<i, v>>)
              = PenaltiesValue(search.map, <<i, v>>)
         /\ PenaltiesValue(search.map, <<i, v>>)
              = IF v <= MaxGlsVal THEN hist.count[<<i, v>>] ELSE 0
    /\ PenaltiesHasValues(search.table) = PenaltiesHasValues(search.map)
    /\ PenaltiesHasValues(search.map) = (hist.n > 0)

\* One arc incremented twice, another once, a variable never penalized.
C16_Witness ==
    /\ search.size = 2
    /\ PenaltiesValue(search.table, <<0, 2>>) = 2
    /\ PenaltiesValue(search.map, <<0, 0>>) = 1
    /\ PenaltiesValue(search.table, <<0, 1>>) = 0
    /\ \A v \in 0..MaxGlsVal : hist.count[<<1, v>>] = 0

---------------------------------------------------------------------------
(* GuidedLocalSearch (binary form): the objective function gives the cost  *)
(* cost[i + 1] to variable i, whatever its value.                          *)

MaxCost == 3      \* costs 1 and MaxCost
MaxOptima == 3    \* LocalOptimum events followed per GuidedLocalSearch

NewGuidedLocalSearch(maximize, size, sparse, cost) ==
    [maximize_ |-> maximize, size_ |-> size, cost |-> cost,
     current_ |-> kint64max, best_ |-> kint64max,
     assignment_ |-> [i \in 1..size |-> 0], stored |-> FALSE,
     penalties_ |-> IF sparse THEN NewGuidedLocalSearchPenaltiesMap(size)
                              ELSE NewGuidedLocalSearchPenaltiesTable(size)]

\* BinaryGuidedLocalSearch::AssignmentPenalty: objective_function_->Run.
AssignmentPenalty(g, index, next) == g.cost[index + 1]

\* AtSolution(), penalized_objective_ being NULL.
GuidedLocalSearchAtSolution(g, val, values) ==
    [g EXCEPT !.current_ = val,
              !.best_ = IF g.maximize_ THEN MaxOf({val, g.best_})
                                       ELSE MinOf({val, g.best_}),
              !.assignment_ = values, !.stored = TRUE]

\* The pair utility[i] of LocalOptimum: the arc and the quotient
\* value / (penalty + 1.0), kept as the fraction num / den.
Utility(g, i) ==
    LET var_value == g.assignment_[i + 1]
        value == IF var_value # i THEN AssignmentPenalty(g, i, var_value) ELSE 0
        arc == <<i, var_value>>
    IN  [arc |-> arc, num |-> value, den |-> PenaltiesValue(g.penalties_, arc) + 1]

\* Comparator: i.second > j.second.
UtilityGreater(u, w) == u.num * w.den > w.num * u.den

\* The results std::sort may give: the orders of the indices in which no
\* pair comes before a greater one.
SortedOrders(g) ==
    { order \in [1..g.size_ -> 0..(g.size_ - 1)] :
        /\ \A a, b \in 1..g.size_ : a # b => order[a] # order[b]
        /\ \A a \in 1..(g.size_ - 1) :
             ~UtilityGreater(Utility(g, order[a + 1]), Utility(g, order[a])) }

RECURSIVE IncrementWhileEqual(_, _, _, _, _)
\* The for loop of LocalOptimum from position i (from 0) on.
IncrementWhileEqual(g, p, order, utility_value, i) ==
    IF i < g.size_ /\ utility_value * Utility(g, order[i + 1]).den
                         = Utility(g, order[i + 1]).num
       THEN IncrementWhileEqual(g, PenaltiesIncrement(p, Utility(g, order[i + 1]).arc),
                                order, utility_value, i + 1)
       ELSE p

\* LocalOptimum(), order being the result of the sort; utility_value is
\* the first utility converted to int64.
GuidedLocalSearchLocalOptimum(g, order) ==
    LET first == Utility(g, order[1])
        utility_value == CDiv(first.num, first.den)
        p == IncrementWhileEqual(g, PenaltiesIncrement(g.penalties_, first.arc),
                                 order, utility_value, 1)
    IN  [g EXCEPT !.penalties_ = p,
                  !.current_ = IF g.maximize_ THEN kint64min ELSE kint64max]

\* SpecGLS: a GuidedLocalSearch receives AtSolution and, once a solution
\* is stored, LocalOptimum events.
InitGLS ==
    /\ \E maximize \in BOOLEAN, sparse \in BOOLEAN,
          cost \in [1..MaxGlsSize -> {1, MaxCost}] :
         optimize = NewGuidedLocalSearch(maximize, MaxGlsSize, sparse, cost)
    /\ hist = [last |-> "none", before |-> optimize, optima |-> 0]
    /\ solver = Idle /\ collector = Idle /\ limit = Idle /\ restart = Idle
    /\ search = Idle

GLSAtSolution ==
    /\ hist.last # "AtSolution"
    /\ \E values \in [1..optimize.size_ -> {0, MaxGlsVal}] :
         optimize' = GuidedLocalSearchAtSolution(optimize, SumSeq(values), values)
    /\ hist' = [hist EXCEPT !.last = "AtSolution", !.before = optimize]
    /\ UNCHANGED <<solver, collector, limit, restart, search>>

GLSLocalOptimum ==
    /\ optimize.stored
    /\ hist.optima < MaxOptima
    /\ \E order \in SortedOrders(optimize) :
         optimize' = GuidedLocalSearchLocalOptimum(optimize, order)
    /\ hist' = [last |-> "LocalOptimum", before |-> optimize,
                optima |-> hist.optima + 1]
    /\ UNCHANGED <<solver, collector, limit, restart, search>>

NextGLS == GLSAtSolution \/ GLSLocalOptimum

SpecGLS == InitGLS /\ [][NextGLS]_vars

\* Index i attains the maximum utility in g.
AttainsMaximum(g, i) ==
    \A j \in 0..(g.size_ - 1) : ~UtilityGreater(Utility(g, j), Utility(g, i))

\* C15: after LocalOptimum the penalty of the arc (i, value_i) of every
\* tracked index i whose utility cost_i / (1 + penalty) is the maximum over
\* the tracked indices, non-integer maxima and ties included, is larger by
\* exactly 1, and the penalty of every other arc is unchanged.
C15_Original ==
    hist.last = "LocalOptimum" =>
        \A i \in 0..(optimize.size_ - 1), v \in 0..MaxGlsVal :
            PenaltiesValue(optimize.penalties_, <<i, v>>)
              = PenaltiesValue(hist.before.penalties_, <<i, v>>)
                  + (IF v = hist.before.assignment_[i + 1]
                        /\ AttainsMaximum(hist.before, i)
                     THEN 1 ELSE 0)


\* ---------------------------------------------------------------------
\* SimulatedAnnealing (search.cc, "Simulated Annealing").
\* ---------------------------------------------------------------------
MaxTemperature == 2
MaxIterations == 6
MaxEnergy == 1

\* SimulatedAnnealing::SimulatedAnnealing.
NewSimulatedAnnealing(maximize, step, initial_temperature) ==
    [maximize_ |-> maximize, step_ |-> step, best_ |-> 0, current_ |-> 0,
     temperature0_ |-> initial_temperature, iteration_ |-> 0]

\* EnterSearch(), omin and omax being objective_->Min() and Max().
SimulatedAnnealingEnterSearch(sa, omin, omax) ==
    LET best == IF sa.maximize_ THEN omin ELSE omax
    IN  [sa EXCEPT !.best_ = best, !.current_ = best]

\* Temperature(): (1.0 * temperature0_) / iteration_ as the fraction
\* num / den, 0 while iteration_ is 0.
Temperature(sa) ==
    IF sa.iteration_ > 0
    THEN [num |-> sa.temperature0_, den |-> sa.iteration_]
    ELSE [num |-> 0, den |-> 1]

\* The values Temperature() * log(rand_.RndFloat()) takes as an int64:
\* log of a number of [0, 1) is at most 0.
EnergyBounds(sa) ==
    IF Temperature(sa).num > 0 THEN (0 - MaxEnergy)..0 ELSE {0}

\* ApplyDecision(d) for a decision that is not the balancing decision:
\* the bound of the constraint added on the objective.
SimulatedAnnealingApplyDecision(sa, energy_bound) ==
    IF sa.maximize_
    THEN IF sa.current_ > kint64min
         THEN Wrap(sa.current_ + sa.step_ + energy_bound) ELSE sa.current_
    ELSE IF sa.current_ < kint64max
         THEN Wrap(sa.current_ - sa.step_ - energy_bound) ELSE sa.current_

\* AtSolution(), val being objective_->Value().
SimulatedAnnealingAtSolution(sa, val) ==
    [sa EXCEPT !.best_ = IF sa.maximize_ THEN MaxOf({val, sa.best_})
                         ELSE MinOf({val, sa.best_}),
               !.current_ = val]

\* LocalOptimum(): the monitor after the call; the call returns
\* Temperature() > 0 of that monitor.
SimulatedAnnealingLocalOptimum(sa) ==
    [sa EXCEPT !.current_ = IF sa.maximize_ THEN kint64min ELSE kint64max,
               !.iteration_ = sa.iteration_ + 1]

SimulatedAnnealingAcceptNeighborAlways(sa) ==
    [sa EXCEPT !.iteration_ = sa.iteration_ + 1]

\* AcceptNeighbor().
SimulatedAnnealingAcceptNeighbor(sa) ==
    IF sa.iteration_ > 0
    THEN [sa EXCEPT !.iteration_ = sa.iteration_ + 1]
    ELSE sa

\* SpecSA: a SimulatedAnnealing that entered its search receives
\* ApplyDecision, AtSolution, LocalOptimum and AcceptNeighbor events.
\* hist counts the LocalOptimum events (optima), the AcceptNeighbor events
\* (neighbors) and the AcceptNeighbor events before the first
\* LocalOptimum (early).
InitSA ==
    /\ \E maximize \in BOOLEAN, t0 \in 0..MaxTemperature :
         optimize = SimulatedAnnealingEnterSearch(
                        NewSimulatedAnnealing(maximize, 1, t0), 0, MaxObj)
    /\ hist = [last |-> "EnterSearch", optima |-> 0, neighbors |-> 0,
               early |-> 0, bound |-> 0, continue |-> TRUE]
    /\ solver = Idle /\ collector = Idle /\ limit = Idle /\ restart = Idle
    /\ search = Idle

SAApplyDecision ==
    /\ hist.last # "ApplyDecision"
    /\ \E energy_bound \in EnergyBounds(optimize) :
         hist' = [hist EXCEPT !.last = "ApplyDecision",
                     !.bound = SimulatedAnnealingApplyDecision(optimize,
                                                               energy_bound)]
    /\ UNCHANGED <<solver, collector, limit, optimize, restart, search>>

SAAtSolution ==
    /\ hist.last # "AtSolution"
    /\ \E val \in 0..MaxObj :
         optimize' = SimulatedAnnealingAtSolution(optimize, val)
    /\ hist' = [hist EXCEPT !.last = "AtSolution"]
    /\ UNCHANGED <<solver, collector, limit, restart, search>>

SALocalOptimum ==
    /\ optimize.iteration_ < MaxIterations
    /\ optimize' = SimulatedAnnealingLocalOptimum(optimize)
    /\ hist' = [hist EXCEPT !.last = "LocalOptimum",
                            !.optima = hist.optima + 1,
                            !.continue = Temperature(optimize').num > 0]
    /\ UNCHANGED <<solver, collector, limit, restart, search>>

SAAcceptNeighbor ==
    /\ optimize.iteration_ < MaxIterations
    /\ hist.neighbors < MaxIterations
    /\ optimize' = SimulatedAnnealingAcceptNeighbor(optimize)
    /\ hist' = [hist EXCEPT !.last = "AcceptNeighbor",
                            !.neighbors = hist.neighbors + 1,
                            !.early = IF hist.optima = 0
                                      THEN hist.early + 1 ELSE hist.early]
    /\ UNCHANGED <<solver, collector, limit, restart, search>>

NextSA == SAApplyDecision \/ SAAtSolution \/ SALocalOptimum \/ SAAcceptNeighbor

SpecSA == InitSA /\ [][NextSA]_vars

\* The temperature is T0 / n (0 when n is 0).
TemperatureIs(sa, n) ==
    LET t == Temperature(sa)
    IN  IF n = 0 THEN t.num = 0 ELSE t.num * n = sa.temperature0_ * t.den

\* C17: the iteration counter of SimulatedAnnealing is 0 before the first
\* LocalOptimum, 1 right after it, and grows by exactly 1 per LocalOptimum
\* and by nothing else: after n LocalOptimum events interleaved with any
\* AcceptNeighbor events it is n and the temperature is T0 / n.
C17_Original ==
    /\ optimize.iteration_ = hist.optima
    /\ TemperatureIs(optimize, hist.optima)

\* C17 (amended): the counter is 0 before the first LocalOptimum and 1
\* right after it; from then on it grows by exactly 1 per LocalOptimum and
\* by exactly 1 per AcceptNeighbor, and by nothing else: after n
\* LocalOptimum events and m AcceptNeighbor events that follow the first
\* LocalOptimum it is n + m and the temperature is T0 / (n + m).
C17_IterationCounter ==
    LET m == hist.neighbors - hist.early
    IN  /\ optimize.iteration_ = hist.optima + m
        /\ TemperatureIs(optimize, hist.optima + m)
        /\ (hist.optima = 0 => optimize.iteration_ = 0)
        /\ (hist.optima = 1 /\ m = 0 => optimize.iteration_ = 1)

C17_Witness ==
    /\ hist.last = "LocalOptimum"
    /\ hist.optima = 2
    /\ hist.early = 1
    /\ hist.neighbors = 3
    /\ optimize.temperature0_ = MaxTemperature
    /\ optimize.iteration_ = 4


\* ---------------------------------------------------------------------
\* AssignVariablesValues (search.cc, "Assign Variables To Values").
\* The solver s is [vars |-> the domains of its variables (variable i is
\* vars[i + 1]), constraints |-> the constraints added to it, fail |-> a
\* domain was emptied].
\* ---------------------------------------------------------------------
MaxAvvSize == 2

Intervals(maxval) == { lo..hi : lo \in 0..maxval, hi \in 0..maxval } \ {{}}

\* s->MakeBoolVar(): the solver with one more variable of domain {0, 1};
\* the new variable is the last one.
MakeBoolVar(s) == [s EXCEPT !.vars = Append(@, {0, 1})]

LastVar(s) == Len(s.vars) - 1

\* s->MakeIsDifferentCstCt(var, value, boolvar): the constraint
\* boolvar == [var != value]; making it does not add it to the solver.
MakeIsDifferentCstCt(var, value, boolvar) ==
    [kind |-> "IsDifferentCst", vars |-> <<var>>, cst |-> value,
     target |-> boolvar]

\* s->MakeSumGreaterOrEqual(terms, cst): the constraint sum(terms) >= cst.
MakeSumGreaterOrEqual(terms, cst) ==
    [kind |-> "SumGreaterOrEqual", vars |-> terms, cst |-> cst,
     target |-> 0 - 1]

\* s->AddConstraint(ct).
AddConstraint(s, ct) == [s EXCEPT !.constraints = @ \cup {ct}]

\* Constraint ct holds for the tuple t of values of the variables.
Holds(ct, t) ==
    IF ct.kind = "IsDifferentCst"
    THEN t[ct.target + 1] = (IF t[ct.vars[1] + 1] # ct.cst THEN 1 ELSE 0)
    ELSE SumSeq([j \in DOMAIN ct.vars |-> t[ct.vars[j] + 1]]) >= ct.cst

\* The tuples within the domains of s that satisfy its constraints.
Solutions(s) ==
    IF s.fail THEN {}
    ELSE { t \in Assignments(s.vars) : \A ct \in s.constraints : Holds(ct, t) }

\* vars_[i]->SetValue(values_[i]).
IntVarSetValue(s, var, value) ==
    [s EXCEPT !.vars[var + 1] = @ \cap {value},
              !.fail = @ \/ value \notin s.vars[var + 1]]

NewAssignVariablesValues(vars_, size, values_) ==
    [vars_ |-> vars_, values_ |-> values_, size_ |-> size]

RECURSIVE AssignVariablesValuesApplyFrom(_, _, _)
AssignVariablesValuesApplyFrom(d, s, i) ==
    IF i < d.size_ /\ ~s.fail
    THEN AssignVariablesValuesApplyFrom(
             d, IntVarSetValue(s, d.vars_[i + 1], d.values_[i + 1]), i + 1)
    ELSE s

\* Apply(s).
AssignVariablesValuesApply(d, s) == AssignVariablesValuesApplyFrom(d, s, 0)

RECURSIVE AssignVariablesValuesRefuteFrom(_, _, _, _)
\* The loop of Refute: [s |-> the solver, terms |-> the vector terms].
AssignVariablesValuesRefuteFrom(d, s, terms, i) ==
    IF i < d.size_
    THEN LET s1 == MakeBoolVar(s)
             term == LastVar(s1)
             ct == MakeIsDifferentCstCt(d.vars_[i + 1], d.values_[i + 1], term)
         IN  AssignVariablesValuesRefuteFrom(d, s1, Append(terms, term), i + 1)
    ELSE [s |-> s, terms |-> terms]

\* Refute(s).
AssignVariablesValuesRefute(d, s) ==
    LET r == AssignVariablesValuesRefuteFrom(d, s, <<>>, 0)
    IN  AddConstraint(r.s, MakeSumGreaterOrEqual(r.terms, 1))

\* SpecAVV: at a node of the search the decision is applied (left
\* branch); the solver backtracks to the node and refutes the decision
\* (right branch).
InitAVV ==
    /\ \E size \in 0..MaxAvvSize :
         \E ds \in [1..size -> Intervals(MaxVal)],
            values \in [1..size -> 0..MaxVal] :
           /\ solver = [vars |-> ds, constraints |-> {}, fail |-> FALSE]
           /\ search = [pc |-> "node",
                        d |-> NewAssignVariablesValues(
                                  [i \in 1..size |-> i - 1], size, values),
                        node |-> solver]
    /\ collector = Idle /\ limit = Idle /\ optimize = Idle /\ restart = Idle
    /\ hist = Idle

AVVApply ==
    /\ search.pc = "node"
    /\ solver' = AssignVariablesValuesApply(search.d, solver)
    /\ search' = [search EXCEPT !.pc = "left"]
    /\ UNCHANGED <<collector, limit, optimize, restart, hist>>

AVVBacktrack ==
    /\ search.pc = "left"
    /\ solver' = search.node
    /\ search' = [search EXCEPT !.pc = "back"]
    /\ UNCHANGED <<collector, limit, optimize, restart, hist>>

AVVRefute ==
    /\ search.pc = "back"
    /\ solver' = AssignVariablesValuesRefute(search.d, solver)
    /\ search' = [search EXCEPT !.pc = "right"]
    /\ UNCHANGED <<collector, limit, optimize, restart, hist>>

NextAVV == AVVApply \/ AVVBacktrack \/ AVVRefute

SpecAVV == InitAVV /\ [][NextAVV]_vars

\* The constraints of s that are a sum >= 1 over one variable per pair
\* of d, every one of which is tied in s to [v_i != k_i].
ReifiedSums(d, s) ==
    { ct \in s.constraints :
        /\ ct.kind = "SumGreaterOrEqual"
        /\ ct.cst = 1
        /\ Len(ct.vars) = d.size_
        /\ \A i \in 1..d.size_ :
             MakeIsDifferentCstCt(d.vars_[i], d.values_[i], ct.vars[i])
                 \in s.constraints }

\* C18: after AssignVariablesValues.Refute on the pairs (v_i, k_i) the
\* constraint store holds a constraint sum >= 1 with exactly one boolean
\* term per variable, each term reified to [v_i != k_i], so that no state
\* of the right subtree has v_i == k_i for all i.
C18_Original ==
    search.pc = "right" =>
        /\ ReifiedSums(search.d, solver) # {}
        /\ \A t \in Solutions(solver) :
             \E i \in 1..search.d.size_ :
                 t[search.d.vars_[i] + 1] # search.d.values_[i]


\* ---------------------------------------------------------------------
\* AssignOneVariableValue at a node: Apply in the left branch, Refute in
\* the right branch after the solver backtracked to the node.
\* solver is the propagation result [fail, dom]; search = [pc, d, node].
\* ---------------------------------------------------------------------
MaxAovSize == 2

\* The nodes: fixpoints of the propagation of obj >= thr that did not fail.
AovNodes ==
    { Propagate([vars |-> ds, obj |-> thr..(MaxAovSize * MaxVal)]) :
        ds \in [1..MaxAovSize -> (SUBSET (0..MaxVal)) \ {{}}],
        thr \in 0..(MaxAovSize * MaxVal) }

InitAOV ==
    /\ \E node \in AovNodes :
         /\ ~node.fail
         /\ solver = node
         /\ \E var \in 0..(MaxAovSize - 1) :
              \E value \in node.dom.vars[var + 1] :
                search = [pc |-> "node",
                          d |-> [null |-> FALSE, var |-> var, value |-> value],
                          node |-> node]
    /\ hist = [left |-> {}]
    /\ collector = Idle /\ limit = Idle /\ optimize = Idle /\ restart = Idle

AOVApply ==
    /\ search.pc = "node"
    /\ solver' = AssignOneVariableValueApply(search.d, solver.dom)
    /\ search' = [search EXCEPT !.pc = "left"]
    /\ hist' = [left |-> solver'.dom.vars[search.d.var + 1]]
    /\ UNCHANGED <<collector, limit, optimize, restart>>

AOVBacktrack ==
    /\ search.pc = "left"
    /\ solver' = search.node
    /\ search' = [search EXCEPT !.pc = "back"]
    /\ UNCHANGED <<collector, limit, optimize, restart, hist>>

AOVRefute ==
    /\ search.pc = "back"
    /\ solver' = AssignOneVariableValueRefute(search.d, solver.dom)
    /\ search' = [search EXCEPT !.pc = "right"]
    /\ UNCHANGED <<collector, limit, optimize, restart, hist>>

NextAOV == AOVApply \/ AOVBacktrack \/ AOVRefute

SpecAOV == InitAOV /\ [][NextAOV]_vars

\* C19: for AssignOneVariableValue(v, val) taken at a node where val is in
\* the domain D of v, applying the decision leaves v the domain {val};
\* refuting it after backtracking to the node leaves v exactly D \ {val};
\* the two branches are disjoint and together cover D.
C19_BranchesPartition ==
    LET D == search.node.dom.vars[search.d.var + 1]
        now == solver.dom.vars[search.d.var + 1]
    IN  /\ search.pc = "left" => now = {search.d.value} /\ ~solver.fail
        /\ search.pc = "right" =>
             /\ now = D \ {search.d.value}
             /\ hist.left \cap now = {}
             /\ hist.left \cup now = D

C19_Witness ==
    /\ search.pc = "right"
    /\ search.node.dom.vars[search.d.var + 1] = 0..MaxVal
    /\ search.d.value = 1
    /\ solver.dom.vars[search.d.var + 1] = {0, MaxVal}
    /\ hist.left = {1}

C19_WitnessLast ==
    /\ search.pc = "right"
    /\ search.node.dom.vars[search.d.var + 1] = {search.d.value}
    /\ solver.fail


\* ---------------------------------------------------------------------
\* The variable selectors (search.cc, "Variable selector").  vars_ is the
\* sequence of the domains of the variables; Select returns
\* [found |-> a variable is returned (not NULL), id |-> *id,
\*  first_ |-> the cursor of the selector afterwards].
\* ---------------------------------------------------------------------
MaxSelSize == 2
MaxSelVal == 2
MaxSelects == 3

RECURSIVE MinSizeSelectorLoop(_, _, _, _)
\* The loop of the four MinSize selectors; lowest: the key must be
\* smaller, usemax: the key is Max() (else Min()).
\* acc = [best_size, best, index].
MinSizeSelectorLoop(vars_, i, acc, kind) ==
    IF i >= Len(vars_) THEN acc
    ELSE LET var == vars_[i + 1]
             size == Cardinality(var)
             key == IF kind.usemax THEN MaxOf(var) ELSE MinOf(var)
             better == IF kind.lowest THEN key < acc.best ELSE key > acc.best
         IN  IF ~Bound(var)
                /\ (size < acc.best_size \/ (size = acc.best_size /\ better))
             THEN MinSizeSelectorLoop(vars_, i + 1,
                      [best_size |-> size, best |-> key, index |-> i], kind)
             ELSE MinSizeSelectorLoop(vars_, i + 1, acc, kind)

\* The end of Select of the selectors that keep an index.
SelectIndex(vars_, index, first_) ==
    IF index = 0 - 1
    THEN [found |-> FALSE, id |-> Len(vars_), first_ |-> first_]
    ELSE [found |-> TRUE, id |-> index, first_ |-> first_]

MinSizeLowestMinSelectorSelect(vars_) ==
    SelectIndex(vars_, MinSizeSelectorLoop(vars_, 0,
        [best_size |-> kint64max, best |-> kint64max, index |-> 0 - 1],
        [lowest |-> TRUE, usemax |-> FALSE]).index, 0)

MinSizeHighestMinSelectorSelect(vars_) ==
    SelectIndex(vars_, MinSizeSelectorLoop(vars_, 0,
        [best_size |-> kint64max, best |-> kint64min, index |-> 0 - 1],
        [lowest |-> FALSE, usemax |-> FALSE]).index, 0)

MinSizeLowestMaxSelectorSelect(vars_) ==
    SelectIndex(vars_, MinSizeSelectorLoop(vars_, 0,
        [best_size |-> kint64max, best |-> kint64max, index |-> 0 - 1],
        [lowest |-> TRUE, usemax |-> TRUE]).index, 0)

MinSizeHighestMaxSelectorSelect(vars_) ==
    SelectIndex(vars_, MinSizeSelectorLoop(vars_, 0,
        [best_size |-> kint64max, best |-> kint64min, index |-> 0 - 1],
        [lowest |-> FALSE, usemax |-> TRUE]).index, 0)

RECURSIVE RandomSelectorLoop(_, _, _)
RandomSelectorLoop(vars_, shift, i) ==
    LET size_ == Len(vars_)
        index == (i + shift) % size_
    IN  IF i >= size_ THEN [found |-> FALSE, id |-> size_, first_ |-> 0]
        ELSE IF ~Bound(vars_[index + 1])
             THEN [found |-> TRUE, id |-> index, first_ |-> 0]
             ELSE RandomSelectorLoop(vars_, shift, i + 1)

\* RandomSelector::Select, shift being s->Rand32(size_).
RandomSelectorSelect(vars_, shift) == RandomSelectorLoop(vars_, shift, 0)

RECURSIVE CheapestVarSelectorLoop(_, _, _, _)
\* acc = [best_eval, index].
CheapestVarSelectorLoop(vars_, var_evaluator_, i, acc) ==
    IF i >= Len(vars_) THEN acc
    ELSE LET eval == var_evaluator_[i + 1]
         IN  IF ~Bound(vars_[i + 1]) /\ eval < acc.best_eval
             THEN CheapestVarSelectorLoop(vars_, var_evaluator_, i + 1,
                      [best_eval |-> eval, index |-> i])
             ELSE CheapestVarSelectorLoop(vars_, var_evaluator_, i + 1, acc)

\* CheapestVarSelector::Select, var_evaluator_[i + 1] being
\* var_evaluator_->Run(i).
CheapestVarSelectorSelect(vars_, var_evaluator_) ==
    SelectIndex(vars_, CheapestVarSelectorLoop(vars_, var_evaluator_, 0,
        [best_eval |-> kint64max, index |-> 0 - 1]).index, 0)

\* PathSelector::FindPathStart: [ok |-> the result, index |-> *index].
FindPathStart(vars_, index) ==
    LET size_ == Len(vars_)
        unbound == { i \in 0..(size_ - 1) : ~Bound(vars_[i + 1]) }
        starts == { i \in unbound :
                      \A j \in 0..(size_ - 1) : i \notin vars_[j + 1] }
    IN  IF starts # {} THEN [ok |-> TRUE, index |-> MaxOf(starts)]
        ELSE IF unbound # {} THEN [ok |-> TRUE, index |-> MinOf(unbound)]
        ELSE [ok |-> FALSE, index |-> index]

\* PathSelector::UpdateIndex.
UpdateIndex(vars_, index) ==
    IF index >= Len(vars_) THEN FindPathStart(vars_, index)
    ELSE [ok |-> TRUE, index |-> index]

RECURSIVE PathSelectorLoopCycleNull(_, _, _, _)
\* Mutant: a chain of size_ bound successors ends the selection with NULL.
PathSelectorLoopCycleNull(vars_, first_, id, count) ==
    IF id < 0
    THEN [found |-> FALSE, id |-> id, first_ |-> first_, oob |-> TRUE,
          count |-> count]
    ELSE IF Bound(vars_[id + 1])
    THEN LET u == UpdateIndex(vars_, MinOf(vars_[id + 1]))
         IN  IF ~u.ok \/ count + 1 >= Len(vars_)
             THEN [found |-> FALSE, id |-> u.index, first_ |-> first_,
                   oob |-> FALSE, count |-> count + 1]
             ELSE PathSelectorLoopCycleNull(vars_, first_, u.index, count + 1)
    ELSE [found |-> TRUE, id |-> id, first_ |-> id, oob |-> FALSE,
          count |-> count]

RECURSIVE PathSelectorLoop(_, _, _, _)
\* The while loop of PathSelector::Select.  oob: vars_[*id] is read with
\* *id < 0 (the result is then not defined by the code); count: the
\* number of successors followed.
PathSelectorLoop(vars_, first_, id, count) ==
    IF id < 0
    THEN [found |-> FALSE, id |-> id, first_ |-> first_, oob |-> TRUE,
          count |-> count]
    ELSE IF Bound(vars_[id + 1])
    THEN LET u == UpdateIndex(vars_, MinOf(vars_[id + 1]))
             f == FindPathStart(vars_, u.index)
         IN  IF ~u.ok
             THEN [found |-> FALSE, id |-> u.index, first_ |-> first_,
                   oob |-> FALSE, count |-> count]
             ELSE IF count + 1 >= Len(vars_)
                  THEN IF ~f.ok
                       THEN [found |-> FALSE, id |-> f.index, first_ |-> first_,
                             oob |-> FALSE, count |-> count + 1]
                       ELSE PathSelectorLoop(vars_, first_, f.index, count + 1)
                  ELSE PathSelectorLoop(vars_, first_, u.index, count + 1)
    ELSE [found |-> TRUE, id |-> id, first_ |-> id, oob |-> FALSE,
          count |-> count]

\* PathSelector::Select.
PathSelectorSelect(first_, vars_) ==
    LET u == UpdateIndex(vars_, first_)
    IN  IF ~u.ok THEN [found |-> FALSE, id |-> u.index, first_ |-> first_,
                       oob |-> FALSE, count |-> 0]
        ELSE PathSelectorLoop(vars_, first_, u.index, 0)

SelectorKinds ==
    {"FirstUnbound", "MinSizeLowestMin", "MinSizeHighestMin",
     "MinSizeLowestMax", "MinSizeHighestMax", "Random", "CheapestVar", "Path"}

\* The constructors: the cursor first_ is 0 in FirstUnboundSelector and
\* kint64max in PathSelector.
NewVariableSelector(kind, vars_, var_evaluator_) ==
    [kind |-> kind, vars_ |-> vars_, size_ |-> Len(vars_),
     first_ |-> IF kind = "Path" THEN kint64max ELSE 0,
     var_evaluator_ |-> var_evaluator_]

\* Select(s, id) of selector sel.
VariableSelectorSelect(sel, shift) ==
    CASE sel.kind = "FirstUnbound" ->
           FirstUnboundSelectorSelect(sel.first_, sel.vars_)
      [] sel.kind = "MinSizeLowestMin" ->
           MinSizeLowestMinSelectorSelect(sel.vars_)
      [] sel.kind = "MinSizeHighestMin" ->
           MinSizeHighestMinSelectorSelect(sel.vars_)
      [] sel.kind = "MinSizeLowestMax" ->
           MinSizeLowestMaxSelectorSelect(sel.vars_)
      [] sel.kind = "MinSizeHighestMax" ->
           MinSizeHighestMaxSelectorSelect(sel.vars_)
      [] sel.kind = "Random" -> RandomSelectorSelect(sel.vars_, shift)
      [] sel.kind = "CheapestVar" ->
           CheapestVarSelectorSelect(sel.vars_, sel.var_evaluator_)
      [] sel.kind = "Path" -> PathSelectorSelect(sel.first_, sel.vars_)

\* The values a callback returns.
Evals == {0, 1, kint64max}

\* SpecSelect: a selector over an array of variables is asked for a
\* variable; the returned variable is then bound to one of its values
\* (a decision down one branch) and the selector is asked again.
InitSelect ==
    /\ \E kind \in SelectorKinds, size \in 0..MaxSelSize :
         \E vars_ \in [1..size -> (SUBSET (0..MaxSelVal)) \ {{}}],
            var_evaluator_ \in [1..size -> Evals] :
           /\ kind # "CheapestVar" => \A i \in 1..size : var_evaluator_[i] = 0
           /\ search = NewVariableSelector(kind, vars_, var_evaluator_)
    /\ hist = [last |-> "none", result |-> [found |-> FALSE, id |-> 0,
                                            first_ |-> 0], selects |-> 0]
    /\ solver = Idle /\ collector = Idle /\ limit = Idle /\ optimize = Idle
    /\ restart = Idle

SelectSelect ==
    /\ hist.last # "Select"
    /\ hist.selects < MaxSelects
    /\ \E shift \in 0..MaxOf({0, search.size_ - 1}) :
         LET r == VariableSelectorSelect(search, shift)
         IN  /\ search' = [search EXCEPT !.first_ = r.first_]
             /\ hist' = [last |-> "Select", result |-> r,
                         selects |-> hist.selects + 1]
    /\ UNCHANGED <<solver, collector, limit, optimize, restart>>

SelectAssign ==
    /\ hist.last = "Select"
    /\ hist.result.found
    /\ \E value \in search.vars_[hist.result.id + 1] :
         search' = [search EXCEPT !.vars_[hist.result.id + 1] = {value}]
    /\ hist' = [hist EXCEPT !.last = "Assign"]
    /\ UNCHANGED <<solver, collector, limit, optimize, restart>>

NextSelect == SelectSelect \/ SelectAssign

SpecSelect == InitSelect /\ [][NextSelect]_vars

AllBound(vars_) == \A i \in DOMAIN vars_ : Bound(vars_[i])

\* C20: for every variable selector usable in a Phase (FirstUnbound,
\* Random, the four MinSize selectors, CheapestVar with any callback
\* values, Path), Select returns null if and only if every variable of the
\* array is bound (so at once for an empty array), and otherwise returns a
\* variable that is unbound, together with its index.
C20_Original ==
    hist.last = "Select" =>
        /\ ~hist.result.found <=> AllBound(search.vars_)
        /\ hist.result.found =>
             /\ hist.result.id \in 0..(search.size_ - 1)
             /\ ~Bound(search.vars_[hist.result.id + 1])


\* ---------------------------------------------------------------------
\* PathSelector alone: vars_[i] is the successor of i.  A variable is
\* unbound with the domain 0 .. size_ - 1 or bound to a value of
\* -1 .. size_.
\* ---------------------------------------------------------------------
MaxPathSize == 4

PathDomains(size) ==
    {0..(size - 1)} \cup { {v} : v \in (0 - 1)..size }

\* What Select may return: the result of the code, or anything once the
\* array was read outside its bounds.
PathOutcomes(sel) ==
    LET r == PathSelectorSelect(sel.first_, sel.vars_)
    IN  IF r.oob
        THEN { [r EXCEPT !.found = f, !.id = i,
                         !.first_ = IF f THEN i ELSE sel.first_] :
                 f \in BOOLEAN, i \in 0..(sel.size_ - 1) }
        ELSE {r}

InitPath ==
    /\ \E size \in 1..MaxPathSize :
         \E vars_ \in [1..size -> PathDomains(size)] :
           search = NewVariableSelector("Path", vars_, [i \in 1..size |-> 0])
    /\ hist = [last |-> "none", before |-> kint64max,
               result |-> [found |-> FALSE, id |-> 0, first_ |-> 0,
                           oob |-> FALSE, count |-> 0]]
    /\ solver = Idle /\ collector = Idle /\ limit = Idle /\ optimize = Idle
    /\ restart = Idle

PathSelect ==
    /\ hist.last # "Select"
    /\ \E r \in PathOutcomes(search) :
         /\ search' = [search EXCEPT !.first_ = r.first_]
         /\ hist' = [last |-> "Select", before |-> search.first_, result |-> r]
    /\ UNCHANGED <<solver, collector, limit, optimize, restart>>

\* The decision on the returned variable binds it.
PathAssign ==
    /\ hist.last = "Select"
    /\ hist.result.found
    /\ ~Bound(search.vars_[hist.result.id + 1])
    /\ \E value \in search.vars_[hist.result.id + 1] :
         search' = [search EXCEPT !.vars_[hist.result.id + 1] = {value}]
    /\ hist' = [hist EXCEPT !.last = "Assign"]
    /\ UNCHANGED <<solver, collector, limit, optimize, restart>>

NextPath == PathSelect \/ PathAssign

SpecPath == InitPath /\ [][NextPath]_vars

RECURSIVE BoundChain(_, _, _)
\* n successors can be followed from index id through bound variables
\* of the array.
BoundChain(vars_, id, n) ==
    IF n = 0 THEN TRUE
    ELSE /\ id \in 0..(Len(vars_) - 1)
         /\ Bound(vars_[id + 1])
         /\ BoundChain(vars_, MinOf(vars_[id + 1]), n - 1)

\* C24: PathSelector.Select follows bound successors from its cursor
\* until it reaches an unbound variable; when the chain followed exceeds
\* the size of the array without reaching one, it returns null; with four
\* variables bound to v0=1, v1=2, v2=3, v3=0 it returns null.
C24_Original ==
    hist.last = "Select" /\ BoundChain(search.vars_, hist.before, search.size_ + 1)
        => ~hist.result.found

\* C24 (amended): when size_ successors were followed from the cursor
\* without reaching an unbound variable, Select continues from the path
\* start found by FindPathStart and returns that unbound variable; it
\* returns null only if no variable of the array is unbound, as with four
\* variables bound to v0=1, v1=2, v2=3, v3=0.
C24_CycleGoesToPathStart ==
    hist.last = "Select" /\ BoundChain(search.vars_, hist.before, search.size_)
        => LET f == FindPathStart(search.vars_, 0)
           IN  /\ hist.result.found <=> ~AllBound(search.vars_)
               /\ hist.result.found =>
                    /\ hist.result.id = f.index
                    /\ ~Bound(search.vars_[hist.result.id + 1])
               /\ search.vars_ = <<{1}, {2}, {3}, {0}>> => ~hist.result.found

C24_Witness ==
    /\ hist.last = "Select"
    /\ hist.before = 3
    /\ search.vars_ = <<{1}, {2}, {3}, {0}>>
    /\ hist.result.count = 4
    /\ ~hist.result.found

C24_WitnessPathStart ==
    /\ hist.last = "Select"
    /\ hist.before = 0
    /\ search.vars_ = <<{1}, {0}, {0, 1, 2}>>
    /\ hist.result.found
    /\ hist.result.id = 2

\* C25: in PathSelector.Select, whenever the index taken from the value
\* of a bound successor lies outside [0, size), above or below, the
\* selection continues from a path start found by FindPathStart, and the
\* array of variables is never indexed outside [0, size).
C25_Original ==
    hist.last = "Select" => ~hist.result.oob


\* ---------------------------------------------------------------------
\* AssignVariablesFromAssignment (search.cc, "AssignAllVariablesFrom
\* Assignment decision builder"): the replay of a stored assignment.
\* assignment_[i + 1] is assignment_->Value of variable i.
\* ---------------------------------------------------------------------
MaxReplaySize == 2
MaxDelegations == 3

NewAssignVariablesFromAssignment(assignment, vars_, size) ==
    [assignment_ |-> assignment, vars_ |-> vars_, size_ |-> size, iter_ |-> 0]

\* Mutant: the last variable of the array is not replayed.
AssignVariablesFromAssignmentNextButLast(b) ==
    IF b.iter_ < b.size_ - 1
    THEN [b |-> [b EXCEPT !.iter_ = b.iter_ + 1], delegated |-> FALSE,
          d |-> [null |-> FALSE, var |-> b.vars_[b.iter_ + 1],
                 value |-> b.assignment_[b.vars_[b.iter_ + 1] + 1]]]
    ELSE [b |-> b, delegated |-> TRUE, d |-> NoDecision]

\* Next(s): [b |-> the builder afterwards, d |-> the decision returned
\* when the builder makes it, delegated |-> db_->Next(s) is called].
AssignVariablesFromAssignmentNext(b) ==
    IF b.iter_ < b.size_
    THEN [b |-> [b EXCEPT !.iter_ = b.iter_ + 1], delegated |-> FALSE,
          d |-> [null |-> FALSE, var |-> b.vars_[b.iter_ + 1],
                 value |-> b.assignment_[b.vars_[b.iter_ + 1] + 1]]]
    ELSE [b |-> b, delegated |-> TRUE, d |-> NoDecision]

\* The arrays replayed: sequences of distinct variables.
ReplayArrays ==
    { a \in UNION { [1..n -> 0..(MaxReplaySize - 1)] : n \in 0..MaxReplaySize } :
        \A i, j \in DOMAIN a : i # j => a[i] # a[j] }

\* The roots: the propagated domains of the model obj >= thr.
ReplayNodes ==
    { Propagate([vars |-> ds, obj |-> thr..(MaxReplaySize * MaxVal)]) :
        ds \in [1..MaxReplaySize -> { lo..MaxVal : lo \in 0..MaxVal }],
        thr \in {0, MaxVal} }

\* SpecReplay: the assignment is stored from a consistent state of the
\* model (a solution within the root domains); the search then runs the
\* builder from the root: Next, the decision applied under a choice
\* point, and backtracks once the inner builder has been called.
\* search = [b |-> the builder, pc, d |-> the decision to apply,
\* stack |-> the choice points [dom, d]].
InitReplay ==
    /\ \E node \in ReplayNodes :
         /\ ~node.fail
         /\ solver = node
         /\ \E assignment \in Feasible(node.dom), vars_ \in ReplayArrays :
              search = [b |-> NewAssignVariablesFromAssignment(
                                  assignment, vars_, Len(vars_)),
                        pc |-> "next", d |-> NoDecision, stack |-> <<>>]
    /\ hist = [last |-> "none", decisions |-> <<>>, delegations |-> 0]
    /\ collector = Idle /\ limit = Idle /\ optimize = Idle /\ restart = Idle

ReplayNext ==
    /\ search.pc = "next"
    /\ hist.delegations < MaxDelegations
    /\ LET r == AssignVariablesFromAssignmentNext(search.b)
       IN  /\ search' = [search EXCEPT !.b = r.b, !.d = r.d,
                            !.pc = IF r.delegated THEN "inner" ELSE "apply"]
           /\ hist' = IF r.delegated
                      THEN [hist EXCEPT !.last = "Delegate",
                                        !.delegations = @ + 1]
                      ELSE [hist EXCEPT !.last = "Next",
                                        !.decisions = Append(@, r.d)]
    /\ UNCHANGED <<solver, collector, limit, optimize, restart>>

ReplayApply ==
    /\ search.pc = "apply"
    /\ solver' = AssignOneVariableValueApply(search.d, solver.dom)
    /\ search' = [search EXCEPT
                    !.stack = Append(@, [dom |-> solver.dom, d |-> search.d]),
                    !.pc = IF solver'.fail THEN "inner" ELSE "next"]
    /\ hist' = [hist EXCEPT !.last = "Apply"]
    /\ UNCHANGED <<collector, limit, optimize, restart>>

\* The subtree is left (a failure, or the search for another solution):
\* the last choice point is popped and its decision refuted.
ReplayBacktrack ==
    /\ search.pc = "inner"
    /\ search.stack # <<>>
    /\ LET top == search.stack[Len(search.stack)]
       IN  /\ solver' = AssignOneVariableValueRefute(top.d, top.dom)
           /\ search' = [search EXCEPT
                           !.stack = SubSeq(@, 1, Len(@) - 1),
                           !.pc = IF solver'.fail THEN "inner" ELSE "next"]
    /\ hist' = [hist EXCEPT !.last = "Backtrack"]
    /\ UNCHANGED <<collector, limit, optimize, restart>>

NextReplay == ReplayNext \/ ReplayApply \/ ReplayBacktrack

SpecReplay == InitReplay /\ [][NextReplay]_vars

\* C22: for an assignment stored from a consistent state, the replay
\* builder run from the root makes one AssignOneVariableValue(var_i,
\* assignment.Value(var_i)) per variable, in the order of the array,
\* before it calls the inner builder, and when it first calls the inner
\* builder every replayed variable has its stored value.
C22_ReplayThenDelegate ==
    LET b == search.b
    IN  /\ Len(hist.decisions) <= b.size_
        /\ \A i \in DOMAIN hist.decisions :
             hist.decisions[i] = [null |-> FALSE, var |-> b.vars_[i],
                                  value |-> b.assignment_[b.vars_[i] + 1]]
        /\ hist.delegations >= 1 => Len(hist.decisions) = b.size_
        /\ hist.last = "Delegate" /\ hist.delegations = 1 =>
             /\ ~solver.fail
             /\ \A i \in 1..b.size_ :
                  solver.dom.vars[b.vars_[i] + 1] = {b.assignment_[b.vars_[i] + 1]}

C22_Witness ==
    /\ hist.last = "Delegate"
    /\ hist.delegations = 1
    /\ search.b.vars_ = <<1, 0>>
    /\ search.b.assignment_ = <<MaxVal, 1>>
    /\ hist.decisions = <<[null |-> FALSE, var |-> 1, value |-> 1],
                          [null |-> FALSE, var |-> 0, value |-> MaxVal]>>
    /\ solver.dom.vars = <<{MaxVal}, {1}>>

\* A later call of the inner builder: iter_ is not restored by the
\* backtrack, so nothing is replayed again.
C22_WitnessLater ==
    /\ hist.last = "Delegate"
    /\ hist.delegations = 2
    /\ \E i \in 1..search.b.size_ :
         solver.dom.vars[search.b.vars_[i] + 1]
             # {search.b.assignment_[search.b.vars_[i] + 1]}


\* ---------------------------------------------------------------------
\* The value selectors RandomValueSelector and CenterValueSelector
\* (search.cc, "Select random", "Select center").  v is the domain of the
\* variable.  A result is [value |-> the int64 returned, ub |-> a signed
\* overflow happened on the way (the value is then not defined)].
\* ---------------------------------------------------------------------
MaxDomainSize == 3
ValueSpread == 9

\* The values of the domains: around 0 and at both ends of int64.
ValueUniverse ==
    (0 - 2)..ValueSpread \cup {kint64min, kint64min + 1, kint64max - 1, kint64max}

ValueDomains ==
    { v \in SUBSET ValueUniverse : v # {} /\ Cardinality(v) <= MaxDomainSize }

RECURSIVE CountContained(_, _, _)
\* The counting loops of RandomValueSelector::Select over the contained
\* values rest, upwards or downwards: the value at which --index == 0.
CountContained(rest, index, up) ==
    IF rest = {} THEN [found |-> FALSE, value |-> 0]
    ELSE LET i == IF up THEN MinOf(rest) ELSE MaxOf(rest)
         IN  IF index - 1 = 0 THEN [found |-> TRUE, value |-> i]
             ELSE CountContained(rest \ {i}, index - 1, up)

\* The part of RandomValueSelector::Select before the drawing: span and
\* size, and whether the domain is dense enough.
RandomValueSelectorDense(v) ==
    LET span == MaxOf(v) - MinOf(v) + 1
        size == Cardinality(v)
    IN  [span |-> span, size |-> size, ub |-> ~InInt64(span),
         dense |-> size > CDiv(span, 4)]

\* One turn of the rejection loop, rand being s->Rand64(span):
\* [found |-> the value is returned, value].
RandomValueSelectorTry(v, rand) ==
    [found |-> (MinOf(v) + rand) \in v, value |-> MinOf(v) + rand]

\* The counting branch, index being s->Rand64(size); return 0LL when
\* neither loop returns.
RandomValueSelectorCount(v, index) ==
    LET size == Cardinality(v)
        r == IF index <= CDiv(size, 2)
             THEN CountContained(v, index, TRUE)
             ELSE CountContained(v \ {MinOf(v)}, index, FALSE)
    IN  [value |-> IF r.found THEN r.value ELSE 0, ub |-> FALSE]

\* CenterValueSelector::Select.
CenterValueSelectorSelect(v) ==
    LET vmin == MinOf(v)
        vmax == MaxOf(v)
        mid == CDiv(vmin + vmax, 2)
        diameter == vmax - mid
        hits == { i \in { IF x >= mid THEN x - mid ELSE mid - x : x \in v } :
                    i >= 1 /\ i <= diameter }
    IN  IF ~InInt64(vmin + vmax) THEN [value |-> 0, ub |-> TRUE]
        ELSE IF mid \in v THEN [value |-> mid, ub |-> FALSE]
        ELSE IF hits = {} THEN [value |-> 0, ub |-> FALSE]
        ELSE IF (mid + MinOf(hits)) \in v
             THEN [value |-> mid + MinOf(hits), ub |-> FALSE]
             ELSE [value |-> mid - MinOf(hits), ub |-> FALSE]

\* What a call may return: the value computed, or any value after a
\* signed overflow.
ValueOutcomes(r, v) ==
    IF r.ub THEN { [value |-> x, ub |-> TRUE] : x \in v \cup {0} } ELSE {r}

\* SpecValue: Select of a value selector is called on a variable.
\* search = [kind, v, pc]; hist = [result |-> the value returned].
InitValue ==
    /\ \E kind \in {"Random", "Center"}, v \in ValueDomains :
         search = [kind |-> kind, v |-> v, pc |-> "call"]
    /\ hist = [result |-> [value |-> 0, ub |-> FALSE], draws |-> 0]
    /\ solver = Idle /\ collector = Idle /\ limit = Idle /\ optimize = Idle
    /\ restart = Idle

CenterSelect ==
    /\ search.pc = "call"
    /\ search.kind = "Center"
    /\ \E r \in ValueOutcomes(CenterValueSelectorSelect(search.v), search.v) :
         hist' = [hist EXCEPT !.result = r]
    /\ search' = [search EXCEPT !.pc = "returned"]
    /\ UNCHANGED <<solver, collector, limit, optimize, restart>>

RandomSelect ==
    /\ search.pc = "call"
    /\ search.kind = "Random"
    /\ LET d == RandomValueSelectorDense(search.v)
       IN  IF d.ub
           THEN /\ \E r \in ValueOutcomes([value |-> 0, ub |-> TRUE], search.v) :
                     hist' = [hist EXCEPT !.result = r]
                /\ search' = [search EXCEPT !.pc = "returned"]
           ELSE IF d.dense
           THEN /\ search' = [search EXCEPT !.pc = "loop"]
                /\ hist' = hist
           ELSE /\ \E index \in 0..(d.size - 1) :
                     hist' = [hist EXCEPT !.result =
                                 RandomValueSelectorCount(search.v, index)]
                /\ search' = [search EXCEPT !.pc = "returned"]
    /\ UNCHANGED <<solver, collector, limit, optimize, restart>>

\* One turn of for (;;).
RandomDraw ==
    /\ search.pc = "loop"
    /\ \E rand \in 0..(RandomValueSelectorDense(search.v).span - 1) :
         LET t == RandomValueSelectorTry(search.v, rand)
         IN  IF t.found
             THEN /\ hist' = [result |-> [value |-> t.value, ub |-> FALSE],
                              draws |-> 1]
                  /\ search' = [search EXCEPT !.pc = "returned"]
             ELSE /\ hist' = [hist EXCEPT !.draws = 1]
                  /\ search' = search
    /\ UNCHANGED <<solver, collector, limit, optimize, restart>>

NextValue == CenterSelect \/ RandomSelect \/ RandomDraw

SpecValue == InitValue /\ [][NextValue]_vars

\* C26: RandomValueSelector.Select returns a value of the current domain
\* of the variable, for every non-empty domain and every outcome of the
\* random generator: by rejection sampling when Size > span / 4, and
\* otherwise as the k-th contained value counted from one end of the
\* domain, for every drawn k of [0, Size).
C26_Original ==
    search.kind = "Random" /\ search.pc = "returned"
        => hist.result.value \in search.v

\* C27: CenterValueSelector.Select returns the midpoint (Min + Max) / 2
\* when the domain contains it and otherwise a value of the domain at
\* the least distance from it; for every non-empty domain, with negative
\* bounds and singletons as well, the result is a value of the domain.
C27_Original ==
    search.kind = "Center" /\ search.pc = "returned"
        => hist.result.value \in search.v


\* ---------------------------------------------------------------------
\* DynamicEvaluatorSelector (search.cc, "Global Dynamic Evaluator-based
\* selector").  evaluator_[<<i, j>>] is evaluator_->Run(i, j); Element
\* is [var, value].
\* ---------------------------------------------------------------------
MaxDynSize == 2
MaxDynVal == 1

RECURSIVE DomainSeq(_)
\* The values of a domain in the order of its iterator.
DomainSeq(D) ==
    IF D = {} THEN <<>> ELSE <<MinOf(D)>> \o DomainSeq(D \ {MinOf(D)})

RECURSIVE ElementsOf(_, _)
\* The elements (i, j) the two nested loops visit, in their order: the
\* unbound variables from index i on, each with the values of its domain.
ElementsOf(vars_, i) ==
    IF i >= Len(vars_) THEN <<>>
    ELSE (IF Bound(vars_[i + 1]) THEN <<>>
          ELSE [k \in 1..Cardinality(vars_[i + 1]) |->
                   [var |-> i, value |-> DomainSeq(vars_[i + 1])[k]]])
         \o ElementsOf(vars_, i + 1)

RECURSIVE DynamicEvaluatorSelectorScan(_, _, _, _)
\* The loops of SelectVariable over the elements es:
\* acc = [best_evaluation, cache_].
DynamicEvaluatorSelectorScan(es, evaluator_, has_tie_breaker, acc) ==
    IF es = <<>> THEN acc
    ELSE LET e == Head(es)
             value == evaluator_[<<e.var, e.value>>]
         IN  DynamicEvaluatorSelectorScan(Tail(es), evaluator_, has_tie_breaker,
                 IF value < acc.best_evaluation
                 THEN [best_evaluation |-> value, cache_ |-> <<e>>]
                 ELSE IF value = acc.best_evaluation /\ has_tie_breaker
                      THEN [acc EXCEPT !.cache_ = Append(@, e)]
                      ELSE acc)

\* SelectVariable(s, id), tie being tie_breaker_->Run(cache_.size()) when
\* it is called: [found, id, first_, cache_]; SelectValue returns
\* cache_[first_].value.
DynamicEvaluatorSelectorSelectVariable(sel, tie) ==
    LET cache_ == DynamicEvaluatorSelectorScan(ElementsOf(sel.vars_, 0),
                      sel.evaluator_, sel.has_tie_breaker,
                      [best_evaluation |-> kint64max, cache_ |-> <<>>]).cache_
    IN  IF Len(cache_) = 0
        THEN [found |-> FALSE, id |-> kint64max, first_ |-> sel.first_,
              cache_ |-> cache_]
        ELSE IF ~sel.has_tie_breaker \/ Len(cache_) = 1
             THEN [found |-> TRUE, id |-> cache_[1].var, first_ |-> 0,
                   cache_ |-> cache_]
             ELSE [found |-> TRUE, id |-> cache_[tie + 1].var, first_ |-> tie,
                   cache_ |-> cache_]

DynamicEvaluatorSelectorSelectValue(sel) == sel.cache_[sel.first_ + 1].value

NewDynamicEvaluatorSelector(vars_, evaluator, has_tie_breaker) ==
    [vars_ |-> vars_, size_ |-> Len(vars_), evaluator_ |-> evaluator,
     has_tie_breaker |-> has_tie_breaker, first_ |-> 0 - 1, cache_ |-> <<>>]

\* The number of elements a tie breaker chooses from.
TieChoices(sel) ==
    Len(DynamicEvaluatorSelectorScan(ElementsOf(sel.vars_, 0), sel.evaluator_,
            sel.has_tie_breaker,
            [best_evaluation |-> kint64max, cache_ |-> <<>>]).cache_)

\* SpecDynamic: SelectVariable and SelectValue are called, the variable
\* is bound to the value, and so on down a branch.
InitDynamic ==
    /\ \E size \in 0..MaxDynSize, has_tie_breaker \in BOOLEAN :
         \E vars_ \in [1..size -> (SUBSET (0..MaxDynVal)) \ {{}}],
            evaluator \in [(0..(MaxDynSize - 1)) \X (0..MaxDynVal)
                              -> {0, 1, kint64max}] :
           search = NewDynamicEvaluatorSelector(vars_, evaluator,
                                                has_tie_breaker)
    /\ hist = [last |-> "none", found |-> FALSE, id |-> 0, value |-> 0]
    /\ solver = Idle /\ collector = Idle /\ limit = Idle /\ optimize = Idle
    /\ restart = Idle

DynamicSelect ==
    /\ hist.last # "Select"
    /\ \E tie \in 0..MaxOf({0, TieChoices(search) - 1}) :
         LET r == DynamicEvaluatorSelectorSelectVariable(search, tie)
             sel == [search EXCEPT !.first_ = r.first_, !.cache_ = r.cache_]
         IN  /\ search' = sel
             /\ hist' = [last |-> "Select", found |-> r.found, id |-> r.id,
                         value |-> IF r.found
                                   THEN DynamicEvaluatorSelectorSelectValue(sel)
                                   ELSE 0]
    /\ UNCHANGED <<solver, collector, limit, optimize, restart>>

DynamicAssign ==
    /\ hist.last = "Select"
    /\ hist.found
    /\ search' = [search EXCEPT !.vars_[hist.id + 1] = {hist.value}]
    /\ hist' = [hist EXCEPT !.last = "Assign"]
    /\ UNCHANGED <<solver, collector, limit, optimize, restart>>

NextDynamic == DynamicSelect \/ DynamicAssign

SpecDynamic == InitDynamic /\ [][NextDynamic]_vars

\* The pairs (i, j) with variable i unbound and j in its domain.
ValidPairs(vars_) ==
    { <<i, j>> \in (0..(Len(vars_) - 1)) \X (UNION { vars_[k] : k \in DOMAIN vars_ }) :
        ~Bound(vars_[i + 1]) /\ j \in vars_[i + 1] }

\* C29: on every call DynamicEvaluatorSelector chooses a pair (i, j), i
\* unbound and j in its domain, whose eval(i, j) is the least over all
\* such pairs, whatever the evaluator returns (the largest int64 too),
\* picking among all the pairs that attain the least value through the
\* tie breaker when there is one, and returns null only when every
\* variable is bound.
C29_Original ==
    hist.last = "Select" =>
        /\ ~hist.found <=> AllBound(search.vars_)
        /\ hist.found =>
             /\ <<hist.id, hist.value>> \in ValidPairs(search.vars_)
             /\ \A p \in ValidPairs(search.vars_) :
                  search.evaluator_[<<hist.id, hist.value>>]
                      <= search.evaluator_[p]
             /\ search.has_tie_breaker =>
                  { <<search.cache_[k].var, search.cache_[k].value>> :
                      k \in DOMAIN search.cache_ }
                  = { p \in ValidPairs(search.vars_) :
                        \A q \in ValidPairs(search.vars_) :
                          search.evaluator_[p] <= search.evaluator_[q] }


\* ---------------------------------------------------------------------
\* The reversible cursors first_ of FirstUnboundSelector, PathSelector and
\* StaticEvaluatorSelector under the trail of the solver.
\* solver = [trail |-> the entries saved, oldest first]: an entry is the
\* former value of first_, the former domain of a variable, or the mark
\* of a choice point with its decision.  search is the selector, whose
\* vars_ are the domains of its variables.
\* ---------------------------------------------------------------------
MaxCurSize == 2
MaxCurVal == 1

\* s->SaveAndSetValue(&first_, value): [s, sel] afterwards.
SaveAndSetValue(s, sel, value) ==
    [s |-> [s EXCEPT !.trail = Append(@, [kind |-> "first_", index |-> 0,
                                          old |-> sel.first_, dom |-> {}])],
     sel |-> [sel EXCEPT !.first_ = value]]

\* A reduction of the domain of variable i to D, saved on the trail.
SetDomain(s, sel, i, D) ==
    [s |-> [s EXCEPT !.trail = Append(@, [kind |-> "var", index |-> i,
                                          old |-> 0, dom |-> sel.vars_[i + 1]])],
     sel |-> [sel EXCEPT !.vars_[i + 1] = D]]

\* The choice point of decision var == value.
PushChoicePoint(s, var, value) ==
    [s EXCEPT !.trail = Append(@, [kind |-> "marker", index |-> var,
                                   old |-> value, dom |-> {}])]

RECURSIVE BacktrackToChoicePoint(_, _)
\* The trail is undone down to the last choice point:
\* [s, sel, var, value], var == value being the decision of that point.
BacktrackToChoicePoint(s, sel) ==
    LET e == s.trail[Len(s.trail)]
        rest == [s EXCEPT !.trail = SubSeq(@, 1, Len(@) - 1)]
    IN  IF e.kind = "marker"
        THEN [s |-> rest, sel |-> sel, var |-> e.index, value |-> e.old]
        ELSE IF e.kind = "first_"
             THEN BacktrackToChoicePoint(rest, [sel EXCEPT !.first_ = e.old])
             ELSE BacktrackToChoicePoint(rest,
                      [sel EXCEPT !.vars_[e.index + 1] = e.dom])

\* Mutant: the cursor is set without being saved.
FirstUnboundSelectorSelectVariableUnsaved(s, sel) ==
    LET r == FirstUnboundSelectorSelect(sel.first_, sel.vars_)
    IN  [s |-> s, sel |-> [sel EXCEPT !.first_ = r.first_],
         found |-> r.found, id |-> r.id]

\* FirstUnboundSelector::Select with its SaveAndSetValue.
FirstUnboundSelectorSelectVariable(s, sel) ==
    LET r == FirstUnboundSelectorSelect(sel.first_, sel.vars_)
        t == SaveAndSetValue(s, sel, r.first_)
    IN  [s |-> t.s, sel |-> t.sel, found |-> r.found, id |-> r.id]

\* Mutant: the cursor is set without being saved.
PathSelectorSelectVariableUnsaved(s, sel) ==
    LET r == PathSelectorSelect(sel.first_, sel.vars_)
    IN  [s |-> s, sel |-> [sel EXCEPT !.first_ = r.first_],
         found |-> r.found, id |-> r.id]

\* PathSelector::Select with its SaveAndSetValue.
PathSelectorSelectVariable(s, sel) ==
    LET r == PathSelectorSelect(sel.first_, sel.vars_)
        t == IF r.found THEN SaveAndSetValue(s, sel, r.id)
             ELSE [s |-> s, sel |-> sel]
    IN  [s |-> t.s, sel |-> t.sel, found |-> r.found, id |-> r.id]

NewStaticEvaluatorSelector(vars_, evaluator) ==
    [kind |-> "Static", vars_ |-> vars_, size_ |-> Len(vars_),
     evaluator_ |-> evaluator, elements_ |-> <<>>, element_size_ |-> 0,
     first_ |-> 0 - 1]

\* Mutant: the elements are compared by their variable only.
CompareByVar(evaluator_, lhs, rhs) == lhs.var < rhs.var

\* StaticEvaluatorSelector::Compare::operator().
Compare(evaluator_, lhs, rhs) ==
    LET value_lhs == evaluator_[<<lhs.var, lhs.value>>]
        value_rhs == evaluator_[<<rhs.var, rhs.value>>]
    IN  value_lhs < value_rhs \/ (value_lhs = value_rhs /\ lhs.var < rhs.var)

RECURSIVE SortElements(_, _, _)
\* sort(elements_, elements_ + element_size_, comp_) of the set S of
\* elements; the elements that comp_ does not order come by increasing
\* value, or by decreasing value when desc.
SortElements(S, evaluator_, desc) ==
    IF S = {} THEN <<>>
    ELSE LET before(e, f) ==
                 \/ Compare(evaluator_, e, f)
                 \/ /\ ~Compare(evaluator_, f, e)
                    /\ IF desc THEN e.value > f.value ELSE e.value < f.value
             e0 == CHOOSE e \in S : \A f \in S \ {e} : before(e, f)
         IN  <<e0>> \o SortElements(S \ {e0}, evaluator_, desc)

\* StaticEvaluatorSelector::SelectVariable; desc: the order sort leaves
\* the equal elements in.
StaticEvaluatorSelectorSelectVariable(s, sel, desc) ==
    LET es == ElementsOf(sel.vars_, 0)
        elements == SortElements({ es[k] : k \in DOMAIN es }, sel.evaluator_, desc)
        b == IF sel.first_ = 0 - 1
             THEN SaveAndSetValue(s, [sel EXCEPT !.elements_ = elements,
                                          !.element_size_ = Len(elements)], 0)
             ELSE [s |-> s, sel |-> sel]
        hits == { i \in b.sel.first_..(b.sel.element_size_ - 1) :
                    /\ ~Bound(b.sel.vars_[b.sel.elements_[i + 1].var + 1])
                    /\ b.sel.elements_[i + 1].value
                           \in b.sel.vars_[b.sel.elements_[i + 1].var + 1] }
        t == IF hits # {} THEN SaveAndSetValue(b.s, b.sel, MinOf(hits))
             ELSE SaveAndSetValue(b.s, b.sel, b.sel.element_size_)
    IN  [s |-> t.s, sel |-> t.sel, found |-> hits # {},
         id |-> IF hits # {} THEN b.sel.elements_[MinOf(hits) + 1].var
                ELSE sel.size_]

\* StaticEvaluatorSelector::SelectValue.
StaticEvaluatorSelectorSelectValue(sel) == sel.elements_[sel.first_ + 1].value

\* SelectVariable of the three selectors with a cursor.
CursorSelectVariable(s, sel, desc) ==
    CASE sel.kind = "FirstUnbound" -> FirstUnboundSelectorSelectVariable(s, sel)
      [] sel.kind = "Path" -> PathSelectorSelectVariable(s, sel)
      [] sel.kind = "Static" -> StaticEvaluatorSelectorSelectVariable(s, sel, desc)

\* The value of the decision: SelectValue of the evaluator selector, the
\* minimum of the domain for the two others.
CursorSelectValue(sel, id) ==
    IF sel.kind = "Static" THEN StaticEvaluatorSelectorSelectValue(sel)
    ELSE MinValueSelectorSelect(sel.vars_[id + 1])

\* What propagation may do besides: nothing, or remove one value from
\* the domain of one other variable, bound or not.
Propagations(sel, var) ==
    {[index |-> 0 - 1, dom |-> {}]}
    \cup { [index |-> j, dom |-> sel.vars_[j + 1] \ {v}] :
             j \in (0..(sel.size_ - 1)) \ {var}, v \in 0..MaxCurVal }

Propagated(t, p) ==
    IF p.index >= 0 /\ p.dom # {} /\ p.dom # t.sel.vars_[p.index + 1]
    THEN SetDomain(t.s, t.sel, p.index, p.dom)
    ELSE t

\* The evaluators tried: eval(i, j) = (a * i + b * j) % 2.
CursorEvaluators(size) ==
    { [p \in (0..(size - 1)) \X (0..MaxCurVal) |-> (a * p[1] + b * p[2]) % 2] :
        a \in 0..1, b \in 0..1 }

\* SpecCursor: the search of BaseAssignVariables::Next with one of the
\* three selectors: SelectVariable; the decision applied under a new
\* choice point; a backtrack to the last choice point, whose decision is
\* then refuted.  hist.cps holds first_ as it was when each choice point
\* was created.
InitCursor ==
    /\ \E size \in 1..MaxCurSize :
         LET vars_ == [i \in 1..size |-> 0..MaxCurVal]
         IN  \/ \E kind \in {"FirstUnbound", "Path"} :
                  search = NewVariableSelector(kind, vars_, [i \in 1..size |-> 0])
             \/ \E evaluator \in CursorEvaluators(size) :
                  search = NewStaticEvaluatorSelector(vars_, evaluator)
    /\ solver = [trail |-> <<>>]
    /\ hist = [last |-> "none", found |-> FALSE, id |-> 0, value |-> 0,
               cps |-> <<>>, expected |-> 0, before |-> 0]
    /\ collector = Idle /\ limit = Idle /\ optimize = Idle /\ restart = Idle

CursorSelect ==
    /\ hist.last # "Select"
    /\ \E desc \in BOOLEAN :
         LET r == CursorSelectVariable(solver, search, desc)
         IN  /\ solver' = r.s
             /\ search' = r.sel
             /\ hist' = [hist EXCEPT !.last = "Select", !.found = r.found,
                                     !.id = r.id,
                                     !.value = IF r.found
                                               THEN CursorSelectValue(r.sel, r.id)
                                               ELSE 0]
    /\ UNCHANGED <<collector, limit, optimize, restart>>

CursorDecide ==
    /\ hist.last = "Select"
    /\ hist.found
    /\ \E p \in Propagations(search, hist.id) :
         LET t == Propagated(SetDomain(PushChoicePoint(solver, hist.id, hist.value),
                                       search, hist.id, {hist.value}), p)
         IN  /\ solver' = t.s
             /\ search' = t.sel
    /\ hist' = [hist EXCEPT !.last = "Decide", !.cps = Append(@, search.first_)]
    /\ UNCHANGED <<collector, limit, optimize, restart>>

CursorBacktrack ==
    /\ hist.cps # <<>>
    /\ LET b == BacktrackToChoicePoint(solver, search)
       IN  \E p \in Propagations(search, b.var) :
             LET t == Propagated(SetDomain(b.s, b.sel, b.var,
                                           b.sel.vars_[b.var + 1] \ {b.value}), p)
             IN  /\ solver' = t.s
                 /\ search' = t.sel
    /\ hist' = [hist EXCEPT !.last = "Backtrack",
                            !.cps = SubSeq(@, 1, Len(@) - 1),
                            !.expected = hist.cps[Len(hist.cps)],
                            !.before = search.first_]
    /\ UNCHANGED <<collector, limit, optimize, restart>>

NextCursor == CursorSelect \/ CursorDecide \/ CursorBacktrack

SpecCursor == InitCursor /\ [][NextCursor]_vars

\* C21: for FirstUnboundSelector, PathSelector and StaticEvaluatorSelector,
\* whenever the engine backtracks through a choice point the cursor
\* first_ has again the value it had when that choice point was created,
\* for every sequence of Select calls, decisions and backtracks.
C21_CursorRestored ==
    hist.last = "Backtrack" => search.first_ = hist.expected

C21_Witness ==
    /\ hist.last = "Backtrack"
    /\ search.kind = "Static"
    /\ search.first_ = hist.expected
    /\ hist.before > hist.expected
    /\ Len(hist.cps) >= 1

C21_WitnessPath ==
    /\ hist.last = "Backtrack"
    /\ search.kind = "Path"
    /\ hist.before # hist.expected

\* C23: in every reachable state of the search FirstUnboundSelector.Select
\* returns the unbound variable of smallest index, as a scan from index 0
\* does: no unbound variable lies at an index below the cursor first_.
C23_SmallestUnbound ==
    search.kind = "FirstUnbound" =>
        /\ \A i \in 0..(search.size_ - 1) :
             i < search.first_ => Bound(search.vars_[i + 1])
        /\ hist.last = "Select" =>
             LET scan == FirstUnboundSelectorSelect(0, search.vars_)
             IN  /\ hist.found = scan.found
                 /\ hist.id = scan.id
                 /\ hist.found <=> ~AllBound(search.vars_)

C23_Witness ==
    /\ search.kind = "FirstUnbound"
    /\ hist.last = "Select"
    /\ hist.found
    /\ hist.id > hist.expected
    /\ hist.before > hist.id
    /\ Len(hist.cps) = 0

\* C28: in every reachable state of the search StaticEvaluatorSelector
\* returns the pair (i, j) that is least in the order (eval(i, j), i)
\* among the pairs with variable i unbound and value j in its domain, and
\* returns null only when there is no such pair: the list sorted at the
\* first call and the reversible cursor skip no pair that is still valid.
C28_StaticLeastPair ==
    search.kind = "Static" /\ hist.last = "Select" =>
        /\ hist.found <=> ValidPairs(search.vars_) # {}
        /\ hist.found =>
             /\ <<hist.id, hist.value>> \in ValidPairs(search.vars_)
             /\ \A p \in ValidPairs(search.vars_) :
                  \/ search.evaluator_[<<hist.id, hist.value>>]
                         < search.evaluator_[p]
                  \/ /\ search.evaluator_[<<hist.id, hist.value>>]
                            = search.evaluator_[p]
                     /\ hist.id <= p[1]

C28_Witness ==
    /\ search.kind = "Static"
    /\ hist.last = "Select"
    /\ hist.found
    /\ hist.before > search.first_
    /\ search.first_ > 0
    /\ Cardinality(ValidPairs(search.vars_)) >= 2


\* ---------------------------------------------------------------------
\* SpecSmart: a RegularLimit with smart_time_check and a wall time budget
\* only, over the Check() calls of a search while the wall time advances.
\* ---------------------------------------------------------------------
MaxSmartChecks == 202

\* The time budgets tried; with the last wall_time_ * check_count_ leaves
\* int64.
SmartBudgets == {1, 2, kint64max - 1}

\* CheckTime() sets next_check_ in this call.
Rescheduled(l, s) ==
    /\ TimePolled(l)
    /\ l.smart_time_check_
    /\ l.check_count_ + 1 > kCheckWarmupIterations
    /\ s.wall_time - l.wall_time_offset_ > 0

\* wall_time_ * check_count_ overflows in this call.
ProductOverflows(l, s) ==
    Rescheduled(l, s) /\ ~InInt64(l.wall_time_ * (l.check_count_ + 1))

\* The limit after PeriodicCheck(): when the signed product overflows,
\* any int64 may stand for it in next_check_.
SmartOutcomes(l, s) ==
    LET r == PeriodicCheck(l, s)
    IN  IF ProductOverflows(l, s)
        THEN { [fail |-> r.fail,
                lim |-> [r.lim EXCEPT !.next_check_ =
                           Wrap(l.check_count_ + 1
                                + Min2(kMaxSkip,
                                       CDiv(p, s.wall_time - l.wall_time_offset_)))]] :
                 p \in {kint64min, 0 - 1, 0, 1,
                        Wrap(l.wall_time_ * (l.check_count_ + 1)), kint64max} }
        ELSE {r}

NoSmartCheck ==
    [called |-> FALSE, polled |-> FALSE, fail |-> FALSE, rescheduled |-> FALSE,
     overflow |-> FALSE, skip |-> 0, remaining |-> 0]

InitSmart ==
    /\ solver = SolverBusy
    /\ \E t \in SmartBudgets :
         limit = NewRegularLimit(t, kint64max, kint64max, kint64max, TRUE)
    /\ collector = Idle /\ optimize = Idle /\ restart = Idle /\ search = Idle
    /\ hist = [entered |-> FALSE, check |-> NoSmartCheck,
               skipped |-> 0, overdue |-> 0]

\* EnterSearch, at the start of a search; again once the limit is crossed.
SmartEnter ==
    /\ ~hist.entered \/ limit.crossed_
    /\ limit' = SearchLimitEnterSearch(limit, solver)
    /\ hist' = [entered |-> TRUE, check |-> NoSmartCheck,
                skipped |-> 0, overdue |-> 0]
    /\ UNCHANGED <<solver, collector, optimize, restart, search>>

\* BeginNextDecision or RefuteDecision: PeriodicCheck().  hist.skipped
\* counts the calls in a row that did not poll the wall time, hist.overdue
\* the calls in a row that returned false with the time budget exceeded.
SmartCheck ==
    /\ hist.entered
    /\ ~limit.crossed_
    /\ limit.check_count_ < MaxSmartChecks
    /\ \E r \in SmartOutcomes(limit, solver) :
         /\ limit' = r.lim
         /\ hist' = [hist EXCEPT
              !.check = [called |-> TRUE,
                         polled |-> TimePolled(limit),
                         fail |-> r.fail,
                         rescheduled |-> Rescheduled(limit, solver),
                         overflow |-> ProductOverflows(limit, solver),
                         skip |-> r.lim.next_check_ - r.lim.check_count_,
                         remaining |-> limit.wall_time_
                                       - (solver.wall_time - limit.wall_time_offset_)],
              !.skipped = IF TimePolled(limit) THEN 0 ELSE @ + 1,
              !.overdue = IF ~r.fail /\ solver.wall_time - limit.wall_time_offset_
                                           > limit.wall_time_
                          THEN @ + 1 ELSE 0]
    /\ UNCHANGED <<solver, collector, optimize, restart, search>>

\* The wall time advances.
SmartTick ==
    /\ hist.entered
    /\ solver.wall_time < SolverBusy.wall_time + MaxTime
    /\ solver' = [solver EXCEPT !.wall_time = @ + 1]
    /\ hist' = [hist EXCEPT !.check = NoSmartCheck]
    /\ UNCHANGED <<limit, collector, optimize, restart, search>>

NextSmart == SmartEnter \/ SmartCheck \/ SmartTick

SpecSmart == InitSmart /\ [][NextSmart]_vars

\* C30 as stated: with smart_time_check, after the 100 warm-up checks the
\* wall time poll is skipped for a number of consecutive Check() calls
\* that is at most 100 and proportional to the remaining time budget (none
\* when nothing remains), and a time overrun is reported within at most
\* 100 further calls.
C30_Original ==
    /\ hist.skipped <= kMaxSkip
    /\ hist.overdue < kMaxSkip
    /\ hist.check.rescheduled =>
         /\ hist.check.skip <= kMaxSkip
         /\ hist.check.remaining <= 0 => hist.check.skip <= 0

\* C30 amended: with smart_time_check, after the 100 warm-up checks every
\* poll made with time elapsed puts the next poll
\* min(100, wall_time_ * check_count_ / time_delta) calls later, the number
\* of calls expected in the whole time budget and not in what remains of
\* it: this is 100 as long as the budget is not exceeded and the product
\* fits int64, and at most 100 in every case.  So at most 99 calls in a row
\* skip the poll and a time overrun is reported within at most 100
\* further calls.
C30_SkipIsCap ==
    /\ hist.skipped < kMaxSkip
    /\ hist.overdue < kMaxSkip
    /\ hist.check.rescheduled =>
         /\ hist.check.skip <= kMaxSkip
         /\ (~hist.check.overflow /\ ~hist.check.fail) => hist.check.skip = kMaxSkip

\* 99 calls in a row have returned false with the time budget exceeded:
\* the next one polls.
C30_Witness ==
    /\ hist.overdue = kMaxSkip - 1
    /\ hist.skipped = kMaxSkip - 1
    /\ ~limit.crossed_
    /\ limit.next_check_ = limit.check_count_ + 1

\* The overrun is reported by the poll that ends the skipped calls.
C30_WitnessReported ==
    /\ hist.check.called /\ hist.check.fail /\ hist.check.polled
    /\ limit.check_count_ = kCheckWarmupIterations + 1 + kMaxSkip


\* ---------------------------------------------------------------------
\* SpecPushPop: the base SolutionCollector under any sequence of
\* EnterSearch, PushSolution and PopSolution, as its subclasses may call
\* them, while the counters of the solver advance.
\* ---------------------------------------------------------------------
MaxStored == 2

InitPushPop ==
    /\ solver = SolverInit
    /\ \E hasPrototype \in BOOLEAN, hasObjective \in BOOLEAN :
         collector = NewCollector("all", hasPrototype, hasObjective, FALSE)
    /\ limit = Idle /\ optimize = Idle /\ restart = Idle /\ search = Idle
    /\ hist = [last |-> "none", pushes |-> 0]

PushPopEnter ==
    /\ hist.last # "Enter"
    /\ collector' = SolutionCollectorEnterSearch(collector)
    /\ hist' = [last |-> "Enter", pushes |-> 0]
    /\ UNCHANGED <<solver, limit, optimize, restart, search>>

PushPopPush ==
    /\ solution_count(collector) < MaxStored
    /\ \E v \in 0..MaxObj :
         collector' = PushSolution(collector, solver,
                                   [vars |-> v, omin |-> v, omax |-> v])
    /\ hist' = [last |-> "Push", pushes |-> Min2(hist.pushes + 1, MaxStored + 1)]
    /\ UNCHANGED <<solver, limit, optimize, restart, search>>

PushPopPop ==
    /\ hist.last # "Pop" \/ collector.solutions_ # <<>>
    /\ collector' = PopSolution(collector)
    /\ hist' = [hist EXCEPT !.last = "Pop"]
    /\ UNCHANGED <<solver, limit, optimize, restart, search>>

NextPushPop == PushPopEnter \/ PushPopPush \/ PushPopPop \/ CollectorTick

SpecPushPop == InitPushPop /\ [][NextPushPop]_vars

SeqRange(s) == { s[i] : i \in DOMAIN s }

\* C39: in every reachable state of a SolutionCollector, after any
\* sequence of EnterSearch, PushSolution and PopSolution, the vectors
\* solutions_, times_, branches_, failures_ and objective_values_ have the
\* same length, which is solution_count(), and no Assignment object is at
\* once in solutions_ and in recycle_solutions_.
C39_VectorsInStep ==
    /\ Len(collector.solutions_) = solution_count(collector)
    /\ Len(collector.times_) = solution_count(collector)
    /\ Len(collector.branches_) = solution_count(collector)
    /\ Len(collector.failures_) = solution_count(collector)
    /\ Len(collector.objective_values_) = solution_count(collector)
    /\ (SeqRange(collector.solutions_) \ {NULL})
          \cap SeqRange(collector.recycle_solutions_) = {}
    /\ NULL \notin SeqRange(collector.recycle_solutions_)
    /\ \A i, j \in DOMAIN collector.solutions_ :
         (i # j /\ collector.solutions_[i] # NULL)
            => collector.solutions_[i] # collector.solutions_[j]

\* A recycled Assignment is stored again while another waits for reuse.
C39_Witness ==
    /\ collector.prototype_
    /\ hist.last = "Push"
    /\ hist.pushes > MaxStored
    /\ solution_count(collector) = 1
    /\ Len(collector.recycle_solutions_) = 1


\* ---------------------------------------------------------------------
\* The order of the tabu lists (SpecTabu).
\* ---------------------------------------------------------------------
\* The stamps of list do not increase from its front to its back.
NewestFirst(list) ==
    \A i, j \in 1..Len(list) : i < j => list[i].stamp_ >= list[j].stamp_

\* C40: in every reachable state of TabuSearch each tabu list is ordered
\* by stamp from the newest at the front to the oldest at the back, so
\* that AgeList, which pops from the back while the back entry is
\* expired, removes every entry whose stamp is below stamp_ - tenure
\* (stamp_ as it is when AgeList runs).
C40_NewestFirst ==
    /\ NewestFirst(optimize.keep_tabu_list_)
    /\ NewestFirst(optimize.forbid_tabu_list_)
    /\ (TabuAged /\ optimize.stamp_ # hist.before.stamp_) =>
         /\ \A i \in 1..Len(optimize.keep_tabu_list_) :
              optimize.keep_tabu_list_[i].stamp_
                 >= hist.before.stamp_ - optimize.keep_tenure_
         /\ \A i \in 1..Len(optimize.forbid_tabu_list_) :
              optimize.forbid_tabu_list_[i].stamp_
                 >= hist.before.stamp_ - optimize.forbid_tenure_

\* An aging has popped the oldest entries of a list that holds entries of
\* two stamps still.
C40_Witness ==
    /\ TabuAged
    /\ Len(optimize.keep_tabu_list_) < Len(hist.before.keep_tabu_list_)
    /\ Cardinality(Stamps(optimize.keep_tabu_list_)) >= 2
    /\ Cardinality(Stamps(hist.before.keep_tabu_list_)) >= 3


\* ---------------------------------------------------------------------
\* SpecObjective: the depth-first driver of SpecSearch over one variable
\* that is its own objective, with values at the ends of int64.  The
\* values are such that no best_ + step_ or best_ - step_ overflows: near
\* kint64max when minimizing, near kint64min when maximizing.
\* ---------------------------------------------------------------------
ObjectiveValues(maximize) ==
    IF maximize THEN {kint64min, kint64min + 1, 0 - 1, 0}
    ELSE {0, 1, kint64max - 1, kint64max}

InitObjective ==
    /\ solver = SolverInit
    /\ \E maximize \in BOOLEAN, step \in 1..MaxStep :
         optimize = NewOptimizeVar(maximize, step)
    /\ collector = NewCollector("all", TRUE, TRUE, FALSE)
    /\ limit = NewRegularLimit(kint64max, kint64max, kint64max, kint64max, FALSE)
    /\ restart = NewConstantRestart(kint64max)
    /\ \E D \in (SUBSET ObjectiveValues(optimize.maximize_)) \ {{}},
          strategy \in {"ASSIGN_MIN_VALUE", "ASSIGN_MAX_VALUE"} :
         search = [pc |-> "start", prob |-> [size |-> 1, maxval |-> 0, thr |-> 0],
                   strategy |-> strategy, limitFirst |-> TRUE,
                   dom |-> [vars |-> <<D>>, obj |-> D],
                   first_ |-> 0, stack |-> <<>>, fd |-> NoDecision,
                   root |-> [dom |-> [vars |-> <<D>>, obj |-> D], first_ |-> 0],
                   nsearch |-> 0, fails0 |-> 0]
    /\ hist = NoHistory

\* EnterSearch is broadcast; the model has no constraint to propagate.
ObjectiveEnterSearch ==
    /\ search.pc \in {"start", "done"}
    /\ search.nsearch < MaxSearches
    /\ optimize' = OptimizeVarEnterSearch(optimize)
    /\ collector' = CollectorEnterSearch(collector)
    /\ limit' = SearchLimitEnterSearch(limit, solver)
    /\ search' = [search EXCEPT !.pc = "next", !.dom = search.root.dom,
                                !.first_ = 0, !.stack = <<>>, !.fd = NoDecision,
                                !.nsearch = @ + 1, !.fails0 = solver.failures]
    /\ hist' = NoHistory
    /\ UNCHANGED <<solver, restart>>

NextObjective ==
    \/ ObjectiveEnterSearch
    \/ DriverNextDecision
    \/ DriverFail
    \/ DriverRefute

SpecObjective == InitObjective /\ [][NextObjective]_vars

\* C37: in a sequential search (one OptimizeVar, the depth-first driver
\* calling RefuteDecision or RestartSearch before any further solution)
\* OptimizeVar.AcceptSolution never returns false, and whenever it
\* returned true the strict-improvement CHECK of the AtSolution that
\* follows does not fire.
C37_Original == ~hist.acceptFalse /\ ~hist.checkFailed

\* The same over the models of SpecSearch, whose objective values are far
\* from the ends of int64.
C37_AwayFromEnds ==
    /\ ~hist.acceptFalse /\ ~hist.checkFailed
    /\ kint64max \notin search.dom.obj /\ kint64min \notin search.dom.obj


\* ---------------------------------------------------------------------
\* TabuSearch::ApplyDecision.  tabu_factor_ is the double num / den; the
\* constraints posted are kept in solver.  A literal is
\* [equal, var_, value_]: var_ == value_ (keep) or var_ != value_ (forbid).
\* ---------------------------------------------------------------------
MaxFactorDen == 4

\* The factors in [0, 1] tried: k / MaxFactorDen.
TabuFactors == { [num |-> k, den |-> MaxFactorDen] : k \in 0..MaxFactorDen }

\* The conversion of the double n * num / den to the int64 parameter of
\* MakeIsGreaterOrEqualCstCt: the fraction is dropped.
DoubleToInt64(n, f) == CDiv(n * f.num, f.den)

\* ApplyDecision(d): what is posted.  aspiration: objective >= cst
\* (maximize) or <= cst; tabu_vars: the literals, keep list first; tabu:
\* sum(tabu_vars) >= cst, posted with aspiration + tabu >= 1 when there
\* is a literal; descent: objective >= or <= cst; last: objective != cst.
TabuSearchApplyDecision(t, tabu_factor_, balancing) ==
    IF balancing THEN [posted |-> FALSE]
    ELSE LET tabu_vars ==
                 [i \in 1..Len(t.keep_tabu_list_) |->
                     [equal |-> TRUE, var_ |-> t.keep_tabu_list_[i].var_,
                      value_ |-> t.keep_tabu_list_[i].value_]]
                 \o [i \in 1..Len(t.forbid_tabu_list_) |->
                     [equal |-> FALSE, var_ |-> t.forbid_tabu_list_[i].var_,
                      value_ |-> t.forbid_tabu_list_[i].value_]]
         IN  [posted |-> TRUE,
              maximize |-> t.maximize_,
              aspiration |-> IF t.maximize_ THEN Wrap(t.best_ + t.step_)
                             ELSE Wrap(t.best_ - t.step_),
              tabu_vars |-> tabu_vars,
              tabu |-> Len(tabu_vars) > 0,
              cst |-> DoubleToInt64(Len(tabu_vars), tabu_factor_),
              descent |-> IF t.maximize_ THEN Wrap(t.current_ + t.step_)
                          ELSE Wrap(t.current_ - t.step_),
              last |-> t.last_]

\* The literals of p that hold when the tracked variables have the
\* values given.
LiteralsHeld(p, values) ==
    Cardinality({ i \in 1..Len(p.tabu_vars) :
                    (values[p.tabu_vars[i].var_ + 1] = p.tabu_vars[i].value_)
                        = p.tabu_vars[i].equal })

AspirationHolds(p, obj) ==
    IF p.maximize THEN obj >= p.aspiration ELSE obj <= p.aspiration

\* aspiration + tabu >= 1 holds for the values given.
TabuConditionHolds(p, values) ==
    \/ LiteralsHeld(p, values) >= p.cst
    \/ AspirationHolds(p, SumSeq(values))

\* SpecTabuApply: a TabuSearch receives AtSolution, LocalOptimum and
\* AcceptNeighbor as in SpecTabu, and ApplyDecision; what ApplyDecision
\* posted is undone by the backtrack that precedes the next event.
MaxApplyStamp == 3

InitTabuApply ==
    /\ \E maximize \in BOOLEAN :
         optimize = TabuSearchEnterSearch(
                        NewTabuSearch(maximize, 1, MaxTabuSize, MaxTenure, MaxTenure),
                        0, MaxTabuSize)
    /\ search \in TabuFactors
    /\ hist = [last |-> "EnterSearch"]
    /\ solver = [posted |-> FALSE]
    /\ collector = Idle /\ limit = Idle /\ restart = Idle

TabuApplyDecision ==
    /\ hist.last \in {"AtSolution", "AcceptNeighbor"}
    /\ \E balancing \in BOOLEAN :
         solver' = TabuSearchApplyDecision(optimize, search, balancing)
    /\ hist' = [last |-> "ApplyDecision"]
    /\ UNCHANGED <<optimize, collector, limit, restart, search>>

\* A solution follows a LocalOptimum or an AcceptNeighbor, or is the first.
TabuApplyAtSolution ==
    /\ hist.last \in {"EnterSearch", "LocalOptimum", "AcceptNeighbor"}
    /\ \E values \in TabuValues(optimize) :
         optimize' = TabuSearchAtSolution(optimize, SumSeq(values), values)
    /\ solver' = [posted |-> FALSE]
    /\ hist' = [last |-> "AtSolution"]
    /\ UNCHANGED <<collector, limit, restart, search>>

TabuApplyLocalOptimum ==
    /\ hist.last # "EnterSearch"
    /\ optimize.stamp_ < MaxApplyStamp
    /\ optimize' = TabuSearchLocalOptimum(optimize)
    /\ solver' = [posted |-> FALSE]
    /\ hist' = [last |-> "LocalOptimum"]
    /\ UNCHANGED <<collector, limit, restart, search>>

TabuApplyAcceptNeighbor ==
    /\ optimize.stamp_ < MaxApplyStamp
    /\ optimize' = TabuSearchAcceptNeighbor(optimize)
    /\ solver' = [posted |-> FALSE]
    /\ hist' = [last |-> "AcceptNeighbor"]
    /\ UNCHANGED <<collector, limit, restart, search>>

NextTabuApply ==
    \/ TabuApplyDecision
    \/ TabuApplyAtSolution
    \/ TabuApplyLocalOptimum
    \/ TabuApplyAcceptNeighbor

SpecTabuApply == InitTabuApply /\ [][NextTabuApply]_vars

\* The least integer that is at least n * num / den.
CeilOf(n, f) == CHOOSE c \in 0..n : c * f.den >= n * f.num /\ (c - 1) * f.den < n * f.num

\* C35: in TabuSearch.ApplyDecision with n > 0 tabu entries (keep and
\* forbid) and tabu_factor f in [0, 1], the posted tabu condition holds
\* only if at least ceil(n * f) of the n literals hold or the aspiration
\* literal holds; with f = 1 no violation of a tabu entry is tolerated
\* without aspiration.
C35_Original ==
    (hist.last = "ApplyDecision" /\ solver.posted /\ solver.tabu) =>
        \A values \in [1..optimize.size_ -> 0..1] :
            TabuConditionHolds(solver, values) =>
                \/ LiteralsHeld(solver, values)
                      >= CeilOf(Len(solver.tabu_vars), search)
                \/ AspirationHolds(solver, SumSeq(values))

\* What the code posts: at least the integral part of n * f literals.
C35_IntegralPart ==
    (hist.last = "ApplyDecision" /\ solver.posted /\ solver.tabu) =>
        /\ solver.cst * search.den <= Len(solver.tabu_vars) * search.num
        /\ (solver.cst + 1) * search.den > Len(solver.tabu_vars) * search.num
        /\ search.num = search.den => solver.cst = Len(solver.tabu_vars)


\* ---------------------------------------------------------------------
\* SymmetryManager.  clauses_[i], decisions_[i] and directions_[i] are
\* the reversible FIFOs of breaker i (from 0), oldest entry first: Push
\* appends, Last is the final entry, an Iterator runs from the newest
\* entry to the oldest.  A term is the index (from 1) of a boolean
\* variable in the sequence of the term domains; a decision is
\* [id, size], size being the number of (var, value) pairs that its
\* Accept visits.
\* ---------------------------------------------------------------------
MaxSymDecisions == 3

NewSymmetryManager(size) ==
    [size_ |-> size,
     clauses_ |-> [i \in 1..size |-> <<>>],
     decisions_ |-> [i \in 1..size |-> <<>>],
     directions_ |-> [i \in 1..size |-> <<>>]]

\* AddTermToClause(visitor, term).
AddTermToClause(m, index, term) ==
    [m EXCEPT !.clauses_[index + 1] = Append(@, term)]

RECURSIVE DecisionAccept(_, _, _, _)
\* d->Accept(visitors_[index]) with a visitor that adds count terms, the
\* first being term.
DecisionAccept(m, index, count, term) ==
    IF count = 0 THEN m
    ELSE DecisionAccept(AddTermToClause(m, index, term), index, count - 1, term + 1)

RECURSIVE SymmetryManagerEndNextDecisionFrom(_, _, _, _, _)
\* The loop of EndNextDecision(db, d) from breaker i on; counts[i + 1] is
\* the number of terms that visitor i adds for d.
SymmetryManagerEndNextDecisionFrom(m, d, counts, term, i) ==
    IF i >= m.size_ THEN m
    ELSE LET last == Len(m.clauses_[i + 1])
             a == DecisionAccept(m, i, counts[i + 1], term)
             b == IF last # Len(a.clauses_[i + 1])
                  THEN [a EXCEPT !.decisions_[i + 1] = Append(@, d.id),
                                 !.directions_[i + 1] = Append(@, FALSE)]
                  ELSE a
         IN  SymmetryManagerEndNextDecisionFrom(b, d, counts, term + counts[i + 1],
                                                i + 1)

\* EndNextDecision(db, d), d not NULL; term is the first new term.
SymmetryManagerEndNextDecision(m, d, counts, term) ==
    SymmetryManagerEndNextDecisionFrom(m, d, counts, term, 0)

\* SimpleRevFIFO::SetLastValue(v).
SetLastValue(fifo, v) == [fifo EXCEPT ![Len(fifo)] = v]

RECURSIVE CheckSymmetriesScan(_, _, _, _, _, _)
\* The while loop of CheckSymmetries, k entries after the newest:
\* [vacuous |-> the function returns, guard, overrun |-> tmp_dir was read
\* past its end].  Such a read yields stray.
CheckSymmetriesScan(clause, dirs, terms, k, guard, stray) ==
    IF Len(clause) - k < 1
    THEN [vacuous |-> FALSE, guard |-> guard, overrun |-> FALSE]
    ELSE LET term == clause[Len(clause) - k]
             past == Len(dirs) - k < 1
             dir == IF past THEN stray ELSE dirs[Len(dirs) - k]
             rest == CheckSymmetriesScan(
                         clause, dirs, terms, k + 1,
                         IF ~dir /\ MinOf(terms[term]) = 0
                         THEN Append(guard, term) ELSE guard,
                         stray)
         IN  IF ~dir /\ MaxOf(terms[term]) = 0
             THEN [vacuous |-> TRUE, guard |-> guard, overrun |-> past]
             ELSE [rest EXCEPT !.overrun = @ \/ past]

\* Mutant: a term whose Max is 0 is skipped and the scan goes on.
CheckSymmetriesNoReturn(m, index, terms, stray) ==
    LET clause == m.clauses_[index + 1]
        live == [j \in DOMAIN terms |->
                    IF MaxOf(terms[j]) = 0 THEN {1} ELSE terms[j]]
        r == CheckSymmetriesScan(clause, m.directions_[index + 1], live, 1,
                                 <<>>, stray)
    IN  [m |-> [m EXCEPT !.directions_[index + 1] = SetLastValue(@, TRUE)],
         posted |-> TRUE, guard |-> Append(r.guard, Last(clause)),
         overrun |-> r.overrun]

\* Mutant: the newest entry is not marked.
CheckSymmetriesNoMark(m, index, terms, stray) ==
    LET clause == m.clauses_[index + 1]
        r == CheckSymmetriesScan(clause, m.directions_[index + 1], terms, 1,
                                 <<>>, stray)
    IN  IF r.vacuous
        THEN [m |-> m, posted |-> FALSE, guard |-> <<>>, overrun |-> r.overrun]
        ELSE [m |-> m, posted |-> TRUE, guard |-> Append(r.guard, Last(clause)),
              overrun |-> r.overrun]

\* CheckSymmetries(index): [m, posted |-> the constraint
\* MakeEquality(MakeMin(guard), Zero()) is added, guard, overrun].
CheckSymmetries(m, index, terms, stray) ==
    LET clause == m.clauses_[index + 1]
        r == CheckSymmetriesScan(clause, m.directions_[index + 1], terms, 1,
                                 <<>>, stray)
    IN  IF r.vacuous
        THEN [m |-> m, posted |-> FALSE, guard |-> <<>>, overrun |-> r.overrun]
        ELSE [m |-> [m EXCEPT !.directions_[index + 1] = SetLastValue(@, TRUE)],
              posted |-> TRUE, guard |-> Append(r.guard, Last(clause)),
              overrun |-> r.overrun]

RECURSIVE SymmetryManagerRefuteDecisionFrom(_, _, _, _, _, _)
\* The loop of RefuteDecision(d) from breaker i on: [m, cts |-> the
\* constraints added, as [index, guard], overrun].
SymmetryManagerRefuteDecisionFrom(m, d, terms, stray, i, cts) ==
    IF i >= m.size_ THEN [m |-> m, cts |-> cts, overrun |-> FALSE]
    ELSE IF m.decisions_[i + 1] # <<>> /\ Last(m.decisions_[i + 1]) = d.id
    THEN LET c == CheckSymmetries(m, i, terms, stray)
             rest == SymmetryManagerRefuteDecisionFrom(
                         c.m, d, terms, stray, i + 1,
                         IF c.posted
                         THEN Append(cts, [index |-> i, guard |-> c.guard])
                         ELSE cts)
         IN  [rest EXCEPT !.overrun = @ \/ c.overrun]
    ELSE SymmetryManagerRefuteDecisionFrom(m, d, terms, stray, i + 1, cts)

SymmetryManagerRefuteDecision(m, d, terms, stray) ==
    SymmetryManagerRefuteDecisionFrom(m, d, terms, stray, 0, <<>>)

\* Backtrack to a choice point: the FIFOs get back the lengths they had;
\* SetLastValue is not reversible, the entries that remain keep their
\* current values.
RestoreFifos(m, frame) ==
    [m EXCEPT
       !.clauses_ = [i \in DOMAIN @ |-> SubSeq(@[i], 1, Len(frame.m.clauses_[i]))],
       !.decisions_ = [i \in DOMAIN @ |-> SubSeq(@[i], 1, Len(frame.m.decisions_[i]))],
       !.directions_ = [i \in DOMAIN @ |-> SubSeq(@[i], 1, Len(frame.m.directions_[i]))]]

\* The search with a SymmetryManager: search is the manager; solver holds
\* the domains of the terms, the choice points, the number of decisions
\* on the path to the current node, refuted ones included, and the sizes
\* of the decisions of the builder.  A decision is a new object, distinct
\* from every decision of the path.  hist.refuted and hist.emitted: the
\* decisions refuted on the path, and the (breaker, decision) whose
\* constraint was added on the path.
InitSymmetryWith(sizes) ==
    /\ \E size \in {1, 2} : search = NewSymmetryManager(size)
    /\ solver = [terms |-> <<>>, stack |-> <<>>, made |-> 0, sizes |-> sizes]
    /\ hist = [last |-> "EnterSearch", d |-> 0, before |-> Idle,
               cts |-> <<>>, overrun |-> FALSE,
               refuted |-> {}, emitted |-> {}, twice |-> FALSE]
    /\ collector = Idle /\ limit = Idle /\ optimize = Idle /\ restart = Idle

\* Next returns a decision: EndNextDecision, then the choice point and the
\* left branch.  A new term is unbound.
SymmetryNextDecision ==
    /\ solver.made < MaxSymDecisions
    /\ hist.last # "Stop"
    /\ \E size \in solver.sizes :
       \E counts \in [1..search.size_ -> 0..size] :
         /\ Len(solver.terms) + SumSeq(counts) <= MaxSymDecisions
         /\ LET d == [id |-> solver.made + 1, size |-> size]
                m == SymmetryManagerEndNextDecision(search, d, counts,
                                                    Len(solver.terms) + 1)
                terms == solver.terms \o [k \in 1..SumSeq(counts) |-> {0, 1}]
            IN
             /\ search' = m
             /\ solver' = [solver EXCEPT
                    !.terms = terms, !.made = @ + 1,
                    !.stack = Append(@, [d |-> d, m |-> m, terms |-> terms,
                                         refuted |-> hist.refuted,
                                         emitted |-> hist.emitted])]
             /\ hist' = [hist EXCEPT !.last = "EndNextDecision", !.d = d.id,
                                     !.before = Idle, !.cts = <<>>]
    /\ UNCHANGED <<collector, limit, optimize, restart>>

\* Propagation binds a term.
SymmetryPropagate ==
    /\ hist.last \in {"EndNextDecision", "RefuteDecision"}
    /\ \E j \in DOMAIN solver.terms, v \in 0..1 :
         /\ solver.terms[j] = {0, 1}
         /\ solver' = [solver EXCEPT !.terms[j] = {v}]
    /\ hist' = [hist EXCEPT !.last = "Propagate", !.before = Idle,
                            !.cts = <<>>]
    /\ UNCHANGED <<search, collector, limit, optimize, restart>>

\* A failure: backtrack to the last choice point, then RefuteDecision.
\* A read past the end of directions_ stops the model.
SymmetryRefuteDecision ==
    /\ solver.stack # <<>>
    /\ hist.last # "Stop"
    /\ \E stray \in BOOLEAN :
         LET frame == Last(solver.stack)
             m == RestoreFifos(search, frame)
             r == SymmetryManagerRefuteDecision(m, frame.d, frame.terms, stray)
             now == { <<r.cts[k].index, frame.d.id>> : k \in DOMAIN r.cts }
         IN  /\ stray => r.overrun
             /\ search' = r.m
             /\ solver' = [solver EXCEPT !.terms = frame.terms,
                                         !.made = frame.d.id,
                                         !.stack = ButLast(@)]
             /\ hist' = [last |-> IF r.overrun THEN "Stop" ELSE "RefuteDecision",
                         d |-> frame.d.id, before |-> m,
                         cts |-> r.cts, overrun |-> r.overrun,
                         refuted |-> frame.refuted \cup {frame.d.id},
                         emitted |-> frame.emitted \cup now,
                         twice |-> frame.emitted \cap now # {}]
    /\ UNCHANGED <<collector, limit, optimize, restart>>

NextSymmetry == SymmetryNextDecision \/ SymmetryPropagate \/ SymmetryRefuteDecision

\* SpecSymmetry: the decisions are those of a Phase, AssignOneVariableValue,
\* whose Accept visits one (var, value).
InitSymmetry == InitSymmetryWith({1})

SpecSymmetry == InitSymmetry /\ [][NextSymmetry]_vars

\* SpecSymmetryAny: the builder also returns AssignVariablesValues
\* decisions, whose Accept visits one (var, value) per variable.
InitSymmetryAny == InitSymmetryWith({1, 2})

SpecSymmetryAny == InitSymmetryAny /\ [][NextSymmetry]_vars


\* The positions of the entries of breaker i, before the newest, that
\* the manager m holds as left branches.
OlderLeft(m, i) ==
    { k \in 1..(Len(m.clauses_[i + 1]) - 1) : ~m.directions_[i + 1][k] }

\* The constraints that the last RefuteDecision added for breaker i.
PostedFor(i) == { k \in DOMAIN hist.cts : hist.cts[k].index = i }

\* C38 (as stated): in every reachable state the three FIFOs of every
\* breaker hold the same number of entries, whatever decisions were
\* visited, so that CheckSymmetries pairs each term with its own flag and
\* never reads directions_ past its end.
C38_Original ==
    /\ \A i \in 1..search.size_ :
         /\ Len(search.clauses_[i]) = Len(search.decisions_[i])
         /\ Len(search.decisions_[i]) = Len(search.directions_[i])
    /\ ~hist.overrun

\* The decisions_ and directions_ of a breaker do stay in step.
C38_MarkersInStep ==
    \A i \in 1..search.size_ :
        Len(search.decisions_[i]) = Len(search.directions_[i])

\* C31: after RefuteDecision(d), a breaker whose newest decision was d and
\* none of whose older left terms has Max 0 got exactly one constraint,
\* over its newest term and its older left terms of domain {0, 1}; any
\* other breaker got none.
C31_GuardSet ==
    hist.last = "RefuteDecision" =>
        \A i \in 0..(search.size_ - 1) :
            LET m == hist.before
                clause == m.clauses_[i + 1]
                decs == m.decisions_[i + 1]
                older == OlderLeft(m, i)
            IN  IF /\ decs # <<>>
                   /\ Last(decs) = hist.d
                   /\ \A k \in older : MaxOf(solver.terms[clause[k]]) # 0
                THEN /\ Cardinality(PostedFor(i)) = 1
                     /\ \A k \in PostedFor(i) :
                          /\ SeqRange(hist.cts[k].guard) =
                                 { clause[j] : j \in { j \in older :
                                       solver.terms[clause[j]] = {0, 1} } }
                                 \cup {Last(clause)}
                          /\ Len(hist.cts[k].guard) =
                                 Cardinality(SeqRange(hist.cts[k].guard))
                ELSE PostedFor(i) = {}

\* A constraint with two guards and the newest term was added.
C31_Witness ==
    /\ hist.last = "RefuteDecision"
    /\ \E k \in DOMAIN hist.cts : Len(hist.cts[k].guard) = 3

\* Of two breakers, one whose newest decision was refuted met an older
\* left term of Max 0, and the other one's newest decision is another.
C31_WitnessNone ==
    /\ hist.last = "RefuteDecision"
    /\ search.size_ = 2
    /\ hist.cts = <<>>
    /\ \E i \in 1..2 :
         /\ hist.before.decisions_[i] # <<>>
         /\ Last(hist.before.decisions_[i]) = hist.d
         /\ hist.before.decisions_[3 - i] # <<>>
         /\ Last(hist.before.decisions_[3 - i]) # hist.d

\* C32: a constraint is added for a (breaker, decision) at most once on a
\* path; the entry is then marked (direction true), only entries of
\* refuted decisions are marked, and no guard of a constraint, its newest
\* term apart, is a term of a refuted decision.
C32_EmittedOnce ==
    /\ ~hist.twice
    /\ \A i \in 1..search.size_ : \A p \in DOMAIN search.directions_[i] :
           search.directions_[i][p] => search.decisions_[i][p] \in hist.refuted
    /\ hist.last = "RefuteDecision" =>
         \A k \in DOMAIN hist.cts :
            LET i == hist.cts[k].index + 1
                guard == hist.cts[k].guard
                m == hist.before
            IN  /\ Last(search.directions_[i])
                /\ guard[Len(guard)] = Last(m.clauses_[i])
                /\ \A j \in 1..(Len(guard) - 1) :
                     \A p \in DOMAIN m.clauses_[i] :
                        m.clauses_[i][p] = guard[j] =>
                            /\ ~m.directions_[i][p]
                            /\ m.decisions_[i][p] \notin hist.refuted

\* A constraint was added while an older entry was marked and another
\* older entry, of a decision still on its left branch, was a guard.
C32_Witness ==
    /\ hist.last = "RefuteDecision"
    /\ \E k \in DOMAIN hist.cts :
         LET i == hist.cts[k].index + 1
         IN  /\ Len(hist.cts[k].guard) = 2
             /\ \E p \in DOMAIN hist.before.directions_[i] :
                    hist.before.directions_[i][p]

\* A refuted decision whose entry is not marked (its CheckSymmetries met a
\* term of Max 0) is older than the newest entry of a later refute.
C32_WitnessUnmarked ==
    /\ hist.last = "RefuteDecision"
    /\ \E i \in 1..search.size_ :
         /\ hist.before.decisions_[i] # <<>>
         /\ Last(hist.before.decisions_[i]) = hist.d
         /\ \E p \in 1..(Len(hist.before.decisions_[i]) - 1) :
              /\ hist.before.decisions_[i][p] \in hist.refuted
              /\ ~hist.before.directions_[i][p]


\* ---------------------------------------------------------------------
\* SolveOnce.  solver holds the domains of the caller, its choice points
\* and whether it is failing; search is the SolveOnce builder, whose db_
\* assigns the variables in order, each to its smallest value.
\* ---------------------------------------------------------------------

\* t comes before u in the order in which db_ reaches the assignments.
ReachedBefore(t, u) ==
    \E k \in DOMAIN t :
        /\ t[k] < u[k]
        /\ \A j \in 1..(k - 1) : t[j] = u[j]

\* s->NestedSolve(db, restore, monitors): the nested search stops at its
\* first solution; res tells whether there is one, and the assignments of
\* the nested search stay when restore is false.
NestedSolve(dom, restore) ==
    LET ts == Feasible(dom)
        first == CHOOSE t \in ts : \A u \in ts \ {t} : ReachedBefore(t, u)
    IN  IF ts = {} THEN [res |-> FALSE, dom |-> dom]
        ELSE [res |-> TRUE,
              dom |-> IF restore THEN dom
                      ELSE [vars |-> [i \in DOMAIN dom.vars |-> {first[i]}],
                            obj |-> {SumSeq(first)}]]

\* Mutant: the result of the nested solve is not looked at.
SolveOnceNextNoFail(dom) ==
    LET r == NestedSolve(dom, FALSE)
    IN  [res |-> r.res, fail |-> FALSE, returns |-> TRUE,
         decision |-> NoDecision, dom |-> r.dom]

\* SolveOnce::Next(s): [res, fail |-> s->Fail() is called, returns |-> the
\* function returns, decision |-> what it returns, dom].  Fail() does not
\* return.
SolveOnceNext(dom) ==
    LET r == NestedSolve(dom, FALSE)
    IN  IF ~r.res
        THEN [res |-> r.res, fail |-> TRUE, returns |-> FALSE,
              decision |-> NoDecision, dom |-> r.dom]
        ELSE [res |-> r.res, fail |-> FALSE, returns |-> TRUE,
              decision |-> NoDecision, dom |-> r.dom]

\* The totals that the constraint of the model allows.
SolveOnceTotals == { {}, {0}, {1, 3}, {4}, {2, 3, 4} }

InitSolveOnce ==
    /\ search = [db_ |-> "Phase", monitors_ |-> <<>>]
    /\ \E obj \in SolveOnceTotals :
         solver = [dom |-> [vars |-> [i \in 1..2 |-> 0..MaxVal], obj |-> obj],
                   stack |-> <<>>, failing |-> FALSE, done |-> FALSE]
    /\ hist = [last |-> "Init", res |-> FALSE, fail |-> FALSE,
               returns |-> FALSE, decision |-> NoDecision, before |-> Idle]
    /\ collector = Idle /\ limit = Idle /\ optimize = Idle /\ restart = Idle

\* A builder composed before SolveOnce returns a decision of the caller:
\* a choice point, then a value leaves a domain.
SolveOnceOuterDecision ==
    /\ ~solver.failing /\ ~solver.done
    /\ Len(solver.stack) < 2
    /\ \E i \in 1..2 : \E v \in solver.dom.vars[i] :
         solver' = [solver EXCEPT !.dom.vars[i] = @ \ {v},
                                  !.stack = Append(@, solver.dom)]
    /\ hist' = [hist EXCEPT !.last = "Decision"]
    /\ UNCHANGED <<search, collector, limit, optimize, restart>>

\* The caller's search reaches SolveOnce and calls Next.
SolveOnceCall ==
    /\ ~solver.failing /\ ~solver.done
    /\ LET r == SolveOnceNext(solver.dom)
       IN  /\ solver' = [solver EXCEPT !.dom = r.dom, !.failing = r.fail,
                                       !.done = r.returns /\ r.decision.null]
           /\ hist' = [last |-> "Next", res |-> r.res, fail |-> r.fail,
                       returns |-> r.returns, decision |-> r.decision,
                       before |-> solver.dom]
    /\ UNCHANGED <<search, collector, limit, optimize, restart>>

\* The caller backtracks, after a failure or to look for another solution.
SolveOnceBacktrack ==
    /\ solver.failing \/ solver.done
    /\ solver.stack # <<>>
    /\ solver' = [dom |-> Last(solver.stack), stack |-> ButLast(solver.stack),
                  failing |-> FALSE, done |-> FALSE]
    /\ hist' = [hist EXCEPT !.last = "Backtrack"]
    /\ UNCHANGED <<search, collector, limit, optimize, restart>>

NextSolveOnce == SolveOnceOuterDecision \/ SolveOnceCall \/ SolveOnceBacktrack

SpecSolveOnce == InitSolveOnce /\ [][NextSolveOnce]_vars

\* C33: Next returns no decision; it returns, and returns NULL, exactly
\* when the nested solve told a solution, which it does exactly when the
\* caller's domains hold one; it calls Fail exactly when the nested solve
\* told none.
C33_NullOrFail ==
    hist.last = "Next" =>
        /\ hist.decision.null
        /\ hist.res = (Feasible(hist.before) # {})
        /\ hist.returns = hist.res
        /\ hist.fail = ~hist.res
        /\ solver.done = hist.res
        /\ solver.failing = ~hist.res

\* Next failed the caller below a choice point of the caller.
C33_Witness ==
    /\ hist.last = "Next"
    /\ hist.fail
    /\ solver.stack # <<>>

\* Next returned NULL and the assignments of the nested search stayed.
C33_WitnessNull ==
    /\ hist.last = "Next"
    /\ hist.returns
    /\ AllBound(solver.dom.vars)
    /\ ~AllBound(hist.before.vars)


\* ---------------------------------------------------------------------
\* The factories and the constructors that check their arguments.  A
\* factory gives [aborted |-> the process is aborted (CHECK, LOG(FATAL)),
\* object |-> the object made, null when there is none].
\* ---------------------------------------------------------------------
IntVarStrategy ==
    {"INT_VAR_DEFAULT", "INT_VAR_SIMPLE", "CHOOSE_FIRST_UNBOUND",
     "CHOOSE_RANDOM", "CHOOSE_MIN_SIZE_LOWEST_MIN",
     "CHOOSE_MIN_SIZE_HIGHEST_MIN", "CHOOSE_MIN_SIZE_LOWEST_MAX",
     "CHOOSE_MIN_SIZE_HIGHEST_MAX", "CHOOSE_PATH"}

IntValueStrategy ==
    {"INT_VALUE_DEFAULT", "INT_VALUE_SIMPLE", "ASSIGN_MIN_VALUE",
     "ASSIGN_MAX_VALUE", "ASSIGN_RANDOM_VALUE", "ASSIGN_CENTER_VALUE"}

EvaluatorStrategy == {"CHOOSE_STATIC_GLOBAL_BEST", "CHOOSE_DYNAMIC_GLOBAL_BEST"}

\* A value that is none of the enumerators of its type.
UnknownStrategy == "UNKNOWN"

NullObject == [null |-> TRUE]

Aborted == [aborted |-> TRUE, object |-> NullObject]

Built(object) == [aborted |-> FALSE, object |-> object]

\* BaseAssignVariables::MakeVariableSelector(s, vars, size, str).
MakeVariableSelector(size, str) ==
    CASE str \in {"INT_VAR_DEFAULT", "INT_VAR_SIMPLE", "CHOOSE_FIRST_UNBOUND"} ->
           Built([null |-> FALSE, kind |-> "FirstUnboundSelector", size_ |-> size])
      [] str = "CHOOSE_RANDOM" ->
           Built([null |-> FALSE, kind |-> "RandomSelector", size_ |-> size])
      [] str = "CHOOSE_MIN_SIZE_LOWEST_MIN" ->
           Built([null |-> FALSE, kind |-> "MinSizeLowestMinSelector", size_ |-> size])
      [] str = "CHOOSE_MIN_SIZE_HIGHEST_MIN" ->
           Built([null |-> FALSE, kind |-> "MinSizeHighestMinSelector", size_ |-> size])
      [] str = "CHOOSE_MIN_SIZE_LOWEST_MAX" ->
           Built([null |-> FALSE, kind |-> "MinSizeLowestMaxSelector", size_ |-> size])
      [] str = "CHOOSE_MIN_SIZE_HIGHEST_MAX" ->
           Built([null |-> FALSE, kind |-> "MinSizeHighestMaxSelector", size_ |-> size])
      [] str = "CHOOSE_PATH" ->
           Built([null |-> FALSE, kind |-> "PathSelector", size_ |-> size])
      [] OTHER -> Aborted

\* BaseAssignVariables::MakeValueSelector(s, val_str).
MakeValueSelector(val_str) ==
    CASE val_str \in {"INT_VALUE_DEFAULT", "INT_VALUE_SIMPLE", "ASSIGN_MIN_VALUE"} ->
           Built([null |-> FALSE, kind |-> "MinValueSelector"])
      [] val_str = "ASSIGN_MAX_VALUE" ->
           Built([null |-> FALSE, kind |-> "MaxValueSelector"])
      [] val_str = "ASSIGN_RANDOM_VALUE" ->
           Built([null |-> FALSE, kind |-> "RandomValueSelector"])
      [] val_str = "ASSIGN_CENTER_VALUE" ->
           Built([null |-> FALSE, kind |-> "CenterValueSelector"])
      [] OTHER -> Aborted

\* BaseAssignVariables::MakePhase(s, vars, size, var_selector,
\* value_selector).
BaseAssignVariablesMakePhase(var_selector, value_selector) ==
    Built([null |-> FALSE, kind |-> "BaseAssignVariables",
           selector_ |-> [null |-> FALSE, kind |-> "VariableAssignmentSelector",
                          var_selector_ |-> var_selector,
                          value_selector_ |-> value_selector]])

\* Solver::MakePhase(vars, size, var_str, val_str).
MakePhase(size, var_str, val_str) ==
    LET var_selector == MakeVariableSelector(size, var_str)
        value_selector == MakeValueSelector(val_str)
    IN  IF var_selector.aborted \/ value_selector.aborted THEN Aborted
        ELSE BaseAssignVariablesMakePhase(var_selector.object,
                                          value_selector.object)

\* Solver::MakePhase(vars, size, var_evaluator, val_str).
MakePhaseVarEvaluator(size, val_str) ==
    LET var_selector == [null |-> FALSE, kind |-> "CheapestVarSelector",
                         size_ |-> size]
        value_selector == MakeValueSelector(val_str)
    IN  IF value_selector.aborted THEN Aborted
        ELSE BaseAssignVariablesMakePhase(var_selector, value_selector.object)

\* Solver::MakePhase(vars, size, var_str, value_evaluator, tie_breaker).
MakePhaseValueEvaluator(size, var_str) ==
    LET var_selector == MakeVariableSelector(size, var_str)
        value_selector == [null |-> FALSE, kind |-> "CheapestValueSelector"]
    IN  IF var_selector.aborted THEN Aborted
        ELSE BaseAssignVariablesMakePhase(var_selector.object, value_selector)

\* Solver::MakePhase(vars, size, eval, tie_breaker, str): the switch has
\* no default, selector stays NULL for another value of str.
MakePhaseEvaluator(size, str) ==
    LET selector ==
            CASE str = "CHOOSE_STATIC_GLOBAL_BEST" ->
                   [null |-> FALSE, kind |-> "StaticEvaluatorSelector",
                    size_ |-> size]
              [] str = "CHOOSE_DYNAMIC_GLOBAL_BEST" ->
                   [null |-> FALSE, kind |-> "DynamicEvaluatorSelector",
                    size_ |-> size]
              [] OTHER -> NullObject
    IN  Built([null |-> FALSE, kind |-> "BaseAssignVariables",
               selector_ |-> selector])

\* Solver::MakeMinimize, MakeMaximize: OptimizeVar::OptimizeVar.
MakeOptimizeVar(maximize, step) ==
    IF ~(step > 0) THEN Aborted
    ELSE Built([null |-> FALSE, kind |-> "OptimizeVar",
                monitor |-> NewOptimizeVar(maximize, step)])

\* Solver::MakeLubyRestart: LubyRestart::LubyRestart.
MakeLubyRestart(scale_factor) ==
    IF ~(scale_factor >= 1) THEN Aborted
    ELSE Built([null |-> FALSE, kind |-> "LubyRestart",
                monitor |-> NewLubyRestart(scale_factor)])

\* Solver::MakeAssignVariablesValues(vars, values), the vectors.
MakeAssignVariablesValues(vars_, values_) ==
    IF Len(vars_) # Len(values_) THEN Aborted
    ELSE Built([null |-> FALSE, kind |-> "AssignVariablesValues",
                decision |-> NewAssignVariablesValues(vars_, Len(vars_), values_)])

\* The program calls the factories, one after another, until one aborts.
\* hist: the last call, its arguments, whether they are one of the
\* misuses, and what it gave.
MaxMisuseSize == 2
MaxMisuseStep == 2

InitMisuse ==
    /\ hist = [call |-> "none", strs |-> <<>>, nums |-> <<>>, misuse |-> FALSE,
               made |-> Built(NullObject)]
    /\ solver = Idle /\ collector = Idle /\ limit = Idle /\ optimize = Idle
    /\ restart = Idle /\ search = Idle

MisuseMakePhase ==
    /\ ~hist.made.aborted
    /\ \E size \in 1..MaxMisuseSize :
       \E var_str \in IntVarStrategy \cup {UnknownStrategy} :
       \E val_str \in IntValueStrategy \cup {UnknownStrategy} :
       \E form \in {"strategies", "var_evaluator", "value_evaluator"} :
         hist' = CASE form = "strategies" ->
                        [call |-> "MakePhase", strs |-> <<var_str, val_str>>,
                         nums |-> <<size>>,
                         misuse |-> var_str = UnknownStrategy
                                    \/ val_str = UnknownStrategy,
                         made |-> MakePhase(size, var_str, val_str)]
                   [] form = "var_evaluator" ->
                        [call |-> "MakePhase", strs |-> <<"evaluator", val_str>>,
                         nums |-> <<size>>,
                         misuse |-> val_str = UnknownStrategy,
                         made |-> MakePhaseVarEvaluator(size, val_str)]
                   [] form = "value_evaluator" ->
                        [call |-> "MakePhase", strs |-> <<var_str, "evaluator">>,
                         nums |-> <<size>>,
                         misuse |-> var_str = UnknownStrategy,
                         made |-> MakePhaseValueEvaluator(size, var_str)]
    /\ UNCHANGED <<solver, collector, limit, optimize, restart, search>>

MisuseMakePhaseEvaluator ==
    /\ ~hist.made.aborted
    /\ \E size \in 1..MaxMisuseSize :
       \E str \in EvaluatorStrategy \cup {UnknownStrategy} :
         hist' = [call |-> "MakePhase(eval)", strs |-> <<str>>, nums |-> <<size>>,
                  misuse |-> str = UnknownStrategy,
                  made |-> MakePhaseEvaluator(size, str)]
    /\ UNCHANGED <<solver, collector, limit, optimize, restart, search>>

MisuseMakeOptimizeVar ==
    /\ ~hist.made.aborted
    /\ \E maximize \in BOOLEAN, step \in (0 - MaxMisuseStep)..MaxMisuseStep :
         hist' = [call |-> "MakeOptimizeVar", strs |-> <<>>, nums |-> <<step>>,
                  misuse |-> step <= 0,
                  made |-> MakeOptimizeVar(maximize, step)]
    /\ UNCHANGED <<solver, collector, limit, optimize, restart, search>>

MisuseMakeLubyRestart ==
    /\ ~hist.made.aborted
    /\ \E scale_factor \in (0 - MaxMisuseStep)..MaxMisuseStep :
         hist' = [call |-> "MakeLubyRestart", strs |-> <<>>,
                  nums |-> <<scale_factor>>, misuse |-> scale_factor < 1,
                  made |-> MakeLubyRestart(scale_factor)]
    /\ UNCHANGED <<solver, collector, limit, optimize, restart, search>>

MisuseMakeAssignVariablesValues ==
    /\ ~hist.made.aborted
    /\ \E n \in 0..MaxMisuseSize, k \in 0..MaxMisuseSize :
       \E values_ \in [1..k -> 0..1] :
         hist' = [call |-> "MakeAssignVariablesValues", strs |-> <<>>,
                  nums |-> <<n, k>>, misuse |-> n # k,
                  made |-> MakeAssignVariablesValues([i \in 1..n |-> i - 1],
                                                     values_)]
    /\ UNCHANGED <<solver, collector, limit, optimize, restart, search>>

NextMisuse ==
    \/ MisuseMakePhase
    \/ MisuseMakePhaseEvaluator
    \/ MisuseMakeOptimizeVar
    \/ MisuseMakeLubyRestart
    \/ MisuseMakeAssignVariablesValues

SpecMisuse == InitMisuse /\ [][NextMisuse]_vars

\* C34 (as stated): a call with an unknown variable, value or evaluator
\* strategy, with step <= 0, with scale_factor < 1 or with vectors of
\* different sizes aborts and makes no object.
C34_Original ==
    hist.misuse => hist.made.aborted /\ hist.made.object.null

\* Every misuse but the unknown evaluator strategy aborts and makes no
\* object, and no other call aborts.
C34_OtherMisuses ==
    /\ hist.made.aborted => hist.misuse /\ hist.made.object.null
    /\ hist.misuse /\ hist.call # "MakePhase(eval)" =>
           hist.made.aborted /\ hist.made.object.null


\* ---------------------------------------------------------------------
\* GuidedLocalSearch::AcceptDelta (binary form).  A delta is the sequence
\* of the elements [var, value, activated] of its IntContainer and its
\* objective [has, min, max]; penalty_factor_ is 1.
\* ---------------------------------------------------------------------
MaxDeltas == 3       \* neighbours proposed after one ApplyDecision

\* The members that ApplyDecision and AcceptDelta use, added to g;
\* delta_cache_ is not initialized by the constructor.
WithDeltaMembers(g, step, cache) ==
    [maximize_ |-> g.maximize_, size_ |-> g.size_, cost |-> g.cost,
     current_ |-> g.current_, best_ |-> g.best_,
     assignment_ |-> g.assignment_, penalties_ |-> g.penalties_,
     step_ |-> step, assignment_penalized_value_ |-> 0,
     old_penalized_value_ |-> 0,
     current_penalized_values_ |-> [i \in 1..g.size_ |-> 0],
     delta_cache_ |-> cache, incremental_ |-> FALSE]

\* BinaryGuidedLocalSearch::PenalizedValue(i, j).
PenalizedValue(g, i, j) ==
    LET penalty == PenaltiesValue(g.penalties_, <<i, j>>)
        penalized_value == penalty * AssignmentPenalty(g, i, j)
    IN  IF penalty # 0
        THEN IF g.maximize_ THEN 0 - penalized_value ELSE penalized_value
        ELSE 0

\* BinaryGuidedLocalSearch::AssignmentElementPenalty(assignment_, index).
AssignmentElementPenalty(g, index) ==
    PenalizedValue(g, index, g.assignment_[index + 1])

\* ApplyDecision(d), d not the balancing decision: the members after the
\* call (the constraint on the objective is added to the solver).
GuidedLocalSearchApplyDecision(g) ==
    IF PenaltiesHasValues(g.penalties_)
    THEN LET values == [i \in 1..g.size_ |-> AssignmentElementPenalty(g, i - 1)]
         IN  [g EXCEPT !.current_penalized_values_ = values,
                       !.delta_cache_ = values,
                       !.assignment_penalized_value_ = SumSeq(values),
                       !.old_penalized_value_ = SumSeq(values),
                       !.incremental_ = FALSE]
    ELSE [g EXCEPT !.assignment_penalized_value_ = 0]

RECURSIVE EvaluateFrom(_, _, _, _, _, _, _)
\* The loop of Evaluate from element i (from 0) on: [penalty, delta_cache_].
\* out_values is current_penalized_values_, or delta_cache_ itself when
\* cached is TRUE.
EvaluateFrom(g, container, penalty, cached, cache_delta_values, cache, i) ==
    IF i >= Len(container) THEN [penalty |-> penalty, delta_cache_ |-> cache]
    ELSE LET new_element == container[i + 1]
             index == new_element.var
             out_value == IF cached THEN cache[index + 1]
                          ELSE g.current_penalized_values_[index + 1]
             taken == Wrap(penalty - out_value)
         IN  IF new_element.activated
             THEN LET new_penalty == PenalizedValue(g, index, new_element.value)
                  IN  EvaluateFrom(g, container, Wrap(taken + new_penalty),
                                   cached, cache_delta_values,
                                   IF cache_delta_values
                                   THEN [cache EXCEPT ![index + 1] = new_penalty]
                                   ELSE cache,
                                   i + 1)
             ELSE EvaluateFrom(g, container, taken, cached,
                               cache_delta_values, cache, i + 1)

\* Evaluate(delta, current_penalty, out_values, cache_delta_values).
Evaluate(g, container, current_penalty, cached, cache_delta_values) ==
    EvaluateFrom(g, container, current_penalty, cached, cache_delta_values,
                 g.delta_cache_, 0)

\* AcceptDelta(delta, deltadelta), neither NULL, the objective of delta
\* being objective_ when it has one: [g, objective |-> that of delta].
GuidedLocalSearchAcceptDelta(g, delta, deltadelta) ==
    IF ~PenaltiesHasValues(g.penalties_)
    THEN [g |-> g, objective |-> delta.objective]
    ELSE LET e == IF deltadelta # <<>>
                  THEN IF ~g.incremental_
                       THEN Evaluate(g, delta.container,
                                     g.assignment_penalized_value_, FALSE, TRUE)
                       ELSE Evaluate(g, deltadelta, g.old_penalized_value_,
                                     TRUE, TRUE)
                  ELSE Evaluate(
                           [g EXCEPT !.delta_cache_ =
                                IF g.incremental_
                                THEN g.current_penalized_values_ ELSE @],
                           delta.container, g.assignment_penalized_value_,
                           FALSE, FALSE)
             penalty == e.penalty
             objective == IF delta.objective.has THEN delta.objective
                          ELSE [has |-> TRUE, min |-> kint64min, max |-> kint64max]
         IN  [g |-> [g EXCEPT !.delta_cache_ = e.delta_cache_,
                              !.incremental_ = deltadelta # <<>>,
                              !.old_penalized_value_ = penalty],
              objective |->
                  IF g.maximize_
                  THEN [objective EXCEPT !.min =
                           MaxOf({Min2(Wrap(Wrap(g.current_ + g.step_) - penalty),
                                       Wrap(g.best_ + g.step_)),
                                  objective.min})]
                  ELSE [objective EXCEPT !.max =
                           MinOf({MaxOf({Wrap(Wrap(g.current_ - g.step_) - penalty),
                                         Wrap(g.best_ - g.step_)}),
                                  objective.max})]]

\* A delta of the model gives each variable an element [in, value,
\* activated], in telling whether the container holds it.
DeltaValues == {0, 1}

DeltaElements ==
    { [in |-> FALSE, value |-> 0, activated |-> FALSE],
      [in |-> TRUE, value |-> 0, activated |-> FALSE] }
    \cup { [in |-> TRUE, value |-> v, activated |-> TRUE] : v \in DeltaValues }

InDelta(e) == e.in

\* The IntContainer of the delta m.
Container(m) ==
    SelectSeq([i \in 1..Len(m) |->
                  [var |-> i - 1, in |-> m[i].in, value |-> m[i].value,
                   activated |-> m[i].activated]],
              InDelta)

\* The delta m changed by the deltadelta dd.
ApplyDeltaDelta(m, dd) == [i \in 1..Len(m) |-> IF dd[i].in THEN dd[i] ELSE m[i]]

\* The bounds a delta comes with.
DeltaObjectives ==
    { [has |-> FALSE, min |-> 0, max |-> 0],
      [has |-> TRUE, min |-> 0, max |-> 2] }

\* SpecDelta: a GuidedLocalSearch with penalties and a stored solution,
\* the best one so far,
\* receives ApplyDecision, then the neighbours of the stored solution:
\* one with an empty deltadelta, or one that changes the last delta by
\* its deltadelta.
InitDelta ==
    /\ \E maximize \in BOOLEAN, arc \in (0..1) \X DeltaValues,
          values \in [1..2 -> DeltaValues], cache \in {<<0, 0>>, <<1, 1>>} :
         LET g == GuidedLocalSearchAtSolution(
                      NewGuidedLocalSearch(maximize, 2, FALSE, <<1, MaxCost>>),
                      SumSeq(values), values)
             h == [g EXCEPT !.best_ = g.current_,
                            !.penalties_ = PenaltiesIncrement(@, arc)]
         IN  optimize = WithDeltaMembers(h, 1, cache)
    /\ hist = [last |-> "AtSolution", delta |-> <<>>, count |-> 0,
               deactivated |-> FALSE,
               before |-> [has |-> FALSE, min |-> 0, max |-> 0],
               after |-> [has |-> FALSE, min |-> 0, max |-> 0]]
    /\ solver = Idle /\ collector = Idle /\ limit = Idle /\ restart = Idle
    /\ search = Idle

DeltaApplyDecision ==
    /\ hist.last = "AtSolution"
    /\ optimize' = GuidedLocalSearchApplyDecision(optimize)
    /\ hist' = [hist EXCEPT !.last = "ApplyDecision"]
    /\ UNCHANGED <<solver, collector, limit, restart, search>>

\* A neighbour with an empty deltadelta.
DeltaNeighbour ==
    /\ hist.last \in {"ApplyDecision", "AcceptDelta"}
    /\ hist.count < MaxDeltas
    /\ \E m \in [1..optimize.size_ -> DeltaElements], objective \in DeltaObjectives :
         LET r == GuidedLocalSearchAcceptDelta(
                      optimize, [container |-> Container(m), objective |-> objective],
                      <<>>)
         IN  /\ optimize' = r.g
             /\ hist' = [last |-> "AcceptDelta", delta |-> m,
                         count |-> hist.count + 1,
                         deactivated |-> \E i \in DOMAIN m :
                                            m[i].in /\ ~m[i].activated,
                         before |-> objective, after |-> r.objective]
    /\ UNCHANGED <<solver, collector, limit, restart, search>>

\* A neighbour that changes the last one by a deltadelta.
DeltaIncrement ==
    /\ hist.last = "AcceptDelta"
    /\ hist.count < MaxDeltas
    /\ \E dd \in [1..optimize.size_ -> DeltaElements], objective \in DeltaObjectives :
         LET m == ApplyDeltaDelta(hist.delta, dd)
             r == GuidedLocalSearchAcceptDelta(
                      optimize, [container |-> Container(m), objective |-> objective],
                      Container(dd))
         IN  /\ Container(dd) # <<>>
             /\ optimize' = r.g
             /\ hist' = [last |-> "AcceptDelta", delta |-> m,
                         count |-> hist.count + 1,
                         deactivated |-> hist.deactivated
                                        \/ \E i \in DOMAIN m :
                                               m[i].in /\ ~m[i].activated,
                         before |-> objective, after |-> r.objective]
    /\ UNCHANGED <<solver, collector, limit, restart, search>>

NextDelta == DeltaApplyDecision \/ DeltaNeighbour \/ DeltaIncrement

SpecDelta == InitDelta /\ [][NextDelta]_vars

\* The penalized cost of the delta m, computed against the stored
\* assignment: a variable of the delta gives up its current value and, if
\* activated, takes the penalized value of its new value.
Recomputed(g, m) ==
    g.assignment_penalized_value_
    - SumSeq([i \in 1..Len(m) |->
                 IF m[i].in THEN g.current_penalized_values_[i] ELSE 0])
    + SumSeq([i \in 1..Len(m) |->
                 IF m[i].in /\ m[i].activated
                 THEN PenalizedValue(g, i - 1, m[i].value) ELSE 0])

\* The objective bound of the delta after the call is within the one
\* before it.
Tightened ==
    /\ hist.after.has
    /\ hist.before.has =>
          /\ hist.after.min >= hist.before.min
          /\ hist.after.max <= hist.before.max

\* C36 (as stated): after every AcceptDelta with penalties, whatever the
\* neighbours before it and with deactivated elements too, the penalized
\* cost kept by the call is the one recomputed from the whole delta
\* against the stored assignment, and the objective bound of the delta is
\* only tightened.
C36_Original ==
    hist.last = "AcceptDelta" =>
        /\ optimize.old_penalized_value_ = Recomputed(optimize, hist.delta)
        /\ Tightened

\* The bound is only tightened, and the two costs are equal as long as no
\* neighbour since the last empty deltadelta had a deactivated element.
C36_ActivatedOnly ==
    hist.last = "AcceptDelta" =>
        /\ Tightened
        /\ ~hist.deactivated =>
              optimize.old_penalized_value_ = Recomputed(optimize, hist.delta)

=============================================================================
